------------------------------ MODULE MCBridge ------------------------------
(***************************************************************************)
(* One agent's provider session, on whichever bridge its account names: a  *)
(* stdio bridge (cline, codex) or the Cursor SDK bridge.  An agent runs on *)
(* one of them, so the behaviours of the two are alternatives.             *)
(***************************************************************************)
EXTENDS Bridge, CursorRun

VARIABLE sdk

MCInit == /\ sdk \in {"bridge", "cursor"} /\ Init /\ CursorInit
          /\ sdk = "cursor" => harness = CHOOSE h \in Harnesses : TRUE

\* (A bound: a caller's stop, which cuts a wait as the watchdog does, is looked
\* at on the codex bridge.)
MCNext == \/ /\ sdk = "bridge" /\ Next /\ (harness = "codex" \/ ctx' # "stopped")
             /\ UNCHANGED <<sdk, cursorVars>>
          \/ sdk = "cursor" /\ CursorNext /\ UNCHANGED <<sdk, vars>>

MCVars == <<sdk, vars, cursorVars>>

MCSpec == MCInit /\ [][MCNext]_MCVars /\ Fairness
=============================================================================
