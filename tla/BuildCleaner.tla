----------------------------- MODULE BuildCleaner -----------------------------
(***************************************************************************)
(* build_cleaner.py: the dependencies that modules miss, found from their   *)
(* Module.symvers and from the errors of modpost, and added to their        *)
(* targets.                                                                 *)
(*                                                                         *)
(* `closure` is the sequence of kernel_module targets that cquery lists, in *)
(* which a target appears once for each of its configurations; provides and *)
(* undefined give the symbols a module exports and those modpost misses.    *)
(***************************************************************************)
EXTENDS Buildozer, FiniteSets

\* The modules whose Module.symvers has the symbol.
Exporting(in, s) == {m \in ToSet(in.closure) : s \in in.provides[m]}

Locate(exporting, locs, m) == IF m \in exporting THEN Append(locs, m) ELSE locs

\* Mutant: symbols are looked up while they are collected.
LocatedSoFar(in, i, s) ==
    FoldLeft(LAMBDA locs, m : Locate(Exporting(in, s), locs, m), <<>>, SubSeq(in.closure, 1, i))

\* symbols[s], when the i-th target is examined.
Located(in, i, s) ==
    FoldLeft(LAMBDA locs, m : Locate(Exporting(in, s), locs, m), <<>>, in.closure)

SymbolsOf(in, i) == SetToSeq(in.undefined[in.closure[i]])

\* deps[target] grows by every location, even by several that were reported.
DepsOf(in, i) ==
    LET target == in.closure[i]
        Adds(s) == [j \in DOMAIN Located(in, i, s) |->
                       Add(<<"own", target>>, "deps", Located(in, i, s)[j])]
    IN  FlattenSeq([j \in DOMAIN SymbolsOf(in, i) |-> Adds(SymbolsOf(in, i)[j])])

\* A symbol that no module provides, or that several do, is an error.
IsError(in, i, s) == Len(Located(in, i, s)) # 1

CleanerRequest(in) ==
    [tool |-> "cleaner", in |-> in,
     ops |-> FlattenSeq([i \in DOMAIN in.closure |-> DepsOf(in, i)]),
     dies |-> IF ~in.builds THEN "always"
              ELSE IF \E i \in DOMAIN in.closure : \E s \in in.undefined[in.closure[i]] :
                        IsError(in, i, s) THEN "error" ELSE "never"]

\* `deps` is what the BUILD files say, and modpost reports finitely many symbols.
ASSUME CleanerAssumption ==
    \A tool \in Tool : \A r \in Request(tool) : r.tool = "cleaner" =>
        /\ r = CleanerRequest(r.in)
        /\ IsSeq(r.in.closure)
        /\ \A m \in ToSet(r.in.closure) :
              /\ IsFiniteSet(r.in.undefined[m])
              /\ \A f \in OldFile(r) :
                    Values(EntryAt(f, <<<<"own", m>>, "deps">>)) = r.in.deps[m]

-----------------------------------------------------------------------------
(* Properties *)

\* The modules of the closure that export a symbol that m misses.
Needed(in, m) == {p \in ToSet(in.closure) : in.provides[p] \cap in.undefined[m] # {}}

\* After a run every module of the closure depends on all modules of the closure that
\* export a symbol it misses, and on no other module than it did.
DepsResolved ==
    bzAt = "done" /\ request.tool = "cleaner" /\ edited = {} =>
        LET in == request.in IN
        \A m \in ToSet(in.closure) :
            Values(EntryAt(buildFile, <<<<"own", m>>, "deps">>)) = in.deps[m] \cup Needed(in, m)
=============================================================================
