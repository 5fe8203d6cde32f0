---------------------------- MODULE MCStateCache ----------------------------
(***************************************************************************)
(* StateCache on small instances, which its own constants bound.           *)
(***************************************************************************)
EXTENDS StateCache

MCBefore == <<>>
MCInputs == <<"mic", "desktop">>

MCAfter == <<"scene">>

\* The program scene is known by its name.
MCNamed == Names(MCAfter)

\* All events, and all but those of inputs.
MCFilters == {Fields, Fields \ InputFields}

=============================================================================
