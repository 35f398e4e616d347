----------------------------- MODULE MCLockCheck -----------------------------
(* LockCheck for TLC, with a published release that asks for a version of the *)
(* local project.                                                             *)
EXTENDS LockCheck, LockInputs

PublishedBack == LockPublished({Needs("core", {1})})
=============================================================================
