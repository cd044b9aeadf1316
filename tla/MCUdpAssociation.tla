-------------------------- MODULE MCUdpAssociation --------------------------
EXTENDS UdpAssociation
=============================================================================
