---------------------------- MODULE MCRevisions ----------------------------
EXTENDS Revisions
CONSTANTS p, q, ann
=============================================================================
