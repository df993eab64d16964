-------------------------- MODULE MCProgramDispatch --------------------------
(***************************************************************************)
(* Small programs for ProgramDispatch.                                     *)
(***************************************************************************)
EXTENDS ProgramDispatch, TLC

CONSTANTS tensix, eth, launch

Prog(t, e, runs) == [sizes |-> (tensix :> t) @@ (eth :> e) @@ (launch :> 1),
                     runs |-> runs, fixed |-> eth \in runs]

TwoTypes == {tensix, eth, launch}

\* reset_config_buffer_mgr gives the launch messages a buffer of one entry.
CodeSizes == (tensix :> 4) @@ (eth :> 3) @@ (launch :> 1)

OneEach == (tensix :> 1) @@ (eth :> 1)

CodePrograms == {Prog(1, 0, {tensix}), Prog(3, 1, {tensix, eth})}
=============================================================================
