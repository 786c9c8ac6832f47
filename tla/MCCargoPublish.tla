--------------------------- MODULE MCCargoPublish ---------------------------
(* A plan for model-checking CargoPublish: lib, app on lib, and a delegated  *)
(* tool on lib.                                                             *)
EXTENDS CargoPublish
CONSTANTS lib, app, tool, r1, r2, x, y

LibAppTool == <<lib, app, tool>>
OnLib == (lib :> <<>>) @@ (app :> <<lib>>) @@ (tool :> <<lib>>)
=============================================================================
