------------------------------ MODULE MCIsoPool ------------------------------
(***************************************************************************)
(* IsoPool with the repository's two handlers.                             *)
(***************************************************************************)
EXTENDS IsoPool

Both == <<"rimiso", "ubuntu">>

\* umounts that fail pile the mounts up
Few == Len(mounts) <= 2
=============================================================================
