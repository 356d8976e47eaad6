----------------------------- MODULE MCPkgFetch -----------------------------
(* The three scripts, each with one archive.                               *)
EXTENDS PkgFetch

MCScripts == {"build_sh", "pkg_mk", "gnutoolchain"}
=============================================================================
