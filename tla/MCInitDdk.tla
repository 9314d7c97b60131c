----------------------------- MODULE MCInitDdk -----------------------------
(* Instances of InitDdk for TLC. *)
EXTENDS InitDdk

Full(b) == [build |-> b, prebuilts |-> TRUE, kleaf |-> TRUE, ddk |-> TRUE,
            local |-> FALSE, sync |-> TRUE]

\* Two builds with everything, --nosync, an existing prebuilts directory without a
\* build, --local, and a build without a prebuilts directory.
MCOptions ==
    {Full("b1"), Full("b2"),
     [Full("b2") EXCEPT !.sync = FALSE],
     [Full(NoBuild) EXCEPT !.ddk = FALSE],
     [Full(NoBuild) EXCEPT !.local = TRUE],
     [Full("b1") EXCEPT !.prebuilts = FALSE]}

MCRefresh == {Full("b1"), Full("b2")}
=============================================================================
