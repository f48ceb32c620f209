------------------------------ MODULE MCEntryForm ------------------------------
(* The entry form by itself.                                                   *)
EXTENDS EntryForm
CONSTANTS i1
INSTANCE MCDrafts
================================================================================
