---------------------------- MODULE MCRetrieval ----------------------------
(* A presentation of two revisions, a supporting document and one           *)
(* knowledge item.                                                          *)
EXTENDS Retrieval

MCRevisions == {1, 2}
MCDocuments == {3}
MCItems == {4}
=============================================================================
