----------------------- MODULE MCEventLoopThreadPool -----------------------
EXTENDS EventLoopThreadPool
=============================================================================
