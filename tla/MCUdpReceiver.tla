---------------------------- MODULE MCUdpReceiver ----------------------------
EXTENDS UdpReceiver
=============================================================================
