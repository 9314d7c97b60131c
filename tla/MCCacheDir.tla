----------------------------- MODULE MCCacheDir -----------------------------
(* Instances of CacheDir for TLC. *)
EXTENDS CacheDir, TLC

CONSTANTS a1, a2, a3, t1, t2, d1, d2

\* a1 and a2 are the same target, built by two Bazel invocations or in two
\* configurations that the tags do not tell apart; a3 is another one.
MCAction == {a1, a2, a3}
MCTag    == {t1, t2}
MCDir    == {d1, d2}
MCTagOf  == (a1 :> t1) @@ (a2 :> t1) @@ (a3 :> t2)
MCSuffixOf == (t1 :> d1) @@ (t2 :> d2)
\* The same eight digits for both.
MCCollidingSuffixOf == (t1 :> d1) @@ (t2 :> d1)
\* a1 is a kernel_config, a2 and a3 are eval'ed.
MCInlineSome == {a1}
MCInlineAll == MCAction
\* a1's rule and the others' link different names.
MCName == {"config", "build"}
MCNameOf == (a1 :> "config") @@ (a2 :> "build") @@ (a3 :> "build")
=============================================================================
