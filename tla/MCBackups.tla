----------------------------- MODULE MCBackups -----------------------------
EXTENDS Backups
=============================================================================
