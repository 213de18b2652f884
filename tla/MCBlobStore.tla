---------------------------- MODULE MCBlobStore ----------------------------
EXTENDS BlobStore
MCFiles == 1..4
=============================================================================
