--------------------------- MODULE MCIssueCache ---------------------------
(* IssueCache on small instances.                                            *)
EXTENDS IssueCache

TwoColumns == <<"todo", "done">>
=============================================================================
