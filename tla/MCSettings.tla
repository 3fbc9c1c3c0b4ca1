----------------------------- MODULE MCSettings -----------------------------
(* An instance of Settings for TLC. *)
EXTENDS Settings

CONSTANTS a, b, busy, manual, t1, t2

MCValues == [s \in {"sip", "prayer", "call"} |->
                CASE s = "sip" -> {a, b, busy}
                  [] s = "prayer" -> {a, manual}
                  [] s = "call" -> {a}]
MCRefused == {busy}
MCDefault == [s \in {"sip", "prayer", "call"} |-> a]
MCTables == {t1, t2}
=============================================================================
