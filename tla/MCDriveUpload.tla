---------------------------- MODULE MCDriveUpload ---------------------------
EXTENDS DriveUpload
=============================================================================
