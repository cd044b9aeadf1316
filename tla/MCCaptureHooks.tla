---------------------------- MODULE MCCaptureHooks ----------------------------
EXTENDS CaptureHooks
CONSTANTS admin, supervisor
=============================================================================
