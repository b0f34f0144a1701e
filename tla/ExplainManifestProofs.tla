----------------------- MODULE ExplainManifestProofs -----------------------
(***************************************************************************)
(* What holds of the release check of scripts/explain_manifest for every   *)
(* package, command line and fixture.                                      *)
(***************************************************************************)
EXTENDS ExplainManifest, SequenceTheorems, FiniteSetTheorems, TLAPS

-----------------------------------------------------------------------------
(* Induction over the numbers, from the well-foundedness of < on them.     *)

LEMMA LeastNat ==
  ASSUME NEW S \in SUBSET Nat, S # {}
  PROVE  \E n \in S : \A m \in S : n <= m
<1> DEFINE R == {ss \in Nat \X Nat : ss[1] < ss[2]}
<1>1. IsWellFoundedOn(R, Nat)
  BY NatLessThanWellFounded DEF OpToRel
<1>2. \A x, y \in Nat : x < y => <<x, y>> \in R
  OBVIOUS
<1> HIDE DEF R
<1>3. \E x \in S : \A y \in S : ~(<<y, x>> \in R)
  BY <1>1, WFMin
<1>4. \A x, y \in S : ~(<<y, x>> \in R) => x <= y
  BY <1>2
<1> QED
  BY <1>3, <1>4

LEMMA NatInd ==
  ASSUME NEW S \in SUBSET Nat, 0 \in S, \A n \in S : n + 1 \in S
  PROVE  Nat \subseteq S
<1> SUFFICES ASSUME Nat \ S # {} PROVE FALSE
  OBVIOUS
<1>1. PICK n \in Nat \ S : \A m \in Nat \ S : n <= m
  BY LeastNat
<1>2. n # 0 /\ n - 1 \in Nat
  BY <1>1
<1>3. n - 1 \in S
  BY <1>1, <1>2
<1> QED
  BY <1>1, <1>3

-----------------------------------------------------------------------------
(* The files kept of a sequence. *)

\* The recursive function of Kept exists: it is built one item at a time.
LEMMA KeptExists ==
  ASSUME NEW s, NEW S, Len(s) \in Nat
  PROVE  \E g : g = [i \in 0..Len(s) |->
                       IF i = 0 THEN <<>>
                       ELSE IF i \in S THEN Append(g[i-1], s[i]) ELSE g[i-1]]
<1> DEFINE Next1(g, i) == IF i = 0 THEN <<>>
                          ELSE IF i \in S THEN Append(g[i-1], s[i]) ELSE g[i-1]
           Upto(n, g) == g = [i \in 0..n |-> Next1(g, i)]
           P == {n \in Nat : \E g : Upto(n, g)}
<1>1. 0 \in P
  <2>1. Upto(0, [i \in 0..0 |-> <<>>])
    OBVIOUS
  <2> QED
    BY <2>1
<1>2. ASSUME NEW n \in P PROVE n + 1 \in P
  <2>1. PICK g : Upto(n, g)
    OBVIOUS
  <2> DEFINE h == [i \in 0..(n + 1) |-> IF i = n + 1 THEN Next1(g, n + 1) ELSE g[i]]
  <2>2. n \in Nat /\ DOMAIN g = 0..n /\ n + 1 # 0 /\ (n + 1) - 1 = n
    BY <2>1
  <2>3. ASSUME NEW i \in 0..(n + 1)
        PROVE  h[i] = Next1(h, i)
    <3>1. i # 0 => i - 1 \in 0..n /\ h[i-1] = g[i-1]
      BY <2>2
    <3>2. CASE i = n + 1
      <4>1. h[i] = Next1(g, i) /\ i # 0
        BY <2>2, <3>2
      <4> QED
        BY <3>1, <4>1
    <3>3. CASE i # n + 1
      <4>1. i \in 0..n
        BY <2>2, <3>3
      <4>2. g[i] = Next1(g, i)
        BY <2>1, <4>1
      <4>3. h[i] = g[i]
        BY <3>3
      <4> QED
        BY <3>1, <4>2, <4>3
    <3> QED
      BY <3>2, <3>3
  <2>4. Upto(n + 1, h)
    BY <2>3
  <2> HIDE DEF h, Upto
  <2> QED
    BY <2>2, <2>4
<1>3. Nat \subseteq P
  <2>1. P \in SUBSET Nat
    OBVIOUS
  <2> HIDE DEF P
  <2> QED
    BY <1>1, <1>2, <2>1, NatInd
<1>4. Len(s) \in P
  BY <1>3
<1> QED
  BY <1>4

\* What is kept is a sequence of items of s, no longer than s.
LEMMA KeptProperties ==
  ASSUME NEW W, NEW s \in Seq(W), NEW S
  PROVE  /\ Kept(s, S) \in Seq(W)
         /\ Len(Kept(s, S)) <= Len(s)
         /\ \A n \in 1..Len(Kept(s, S)) : \E i \in 1..Len(s) : Kept(s, S)[n] = s[i]
<1> DEFINE f == CHOOSE g : g = [i \in 0..Len(s) |->
                       IF i = 0 THEN <<>>
                       ELSE IF i \in S THEN Append(g[i-1], s[i]) ELSE g[i-1]]
<1>1. Len(s) \in Nat
  OBVIOUS
<1>2. f = [i \in 0..Len(s) |-> IF i = 0 THEN <<>>
                               ELSE IF i \in S THEN Append(f[i-1], s[i]) ELSE f[i-1]]
  <2> DEFINE R(g) == g = [i \in 0..Len(s) |->
                       IF i = 0 THEN <<>>
                       ELSE IF i \in S THEN Append(g[i-1], s[i]) ELSE g[i-1]]
  <2>1. \E g : R(g)
    BY <1>1, KeptExists
  <2>2. f = CHOOSE g : R(g)
    OBVIOUS
  <2>3. R(f)
    <3> HIDE DEF R, f
    <3> QED
      BY <2>1, <2>2
  <2> QED
    BY <2>3
<1>3. Kept(s, S) = f[Len(s)]
  BY DEF Kept
<1> HIDE DEF f
<1>9. f[0] = <<>>
  BY <1>1, <1>2
<1>10. ASSUME NEW i \in 1..Len(s)
       PROVE  f[i] = IF i \in S THEN Append(f[i-1], s[i]) ELSE f[i-1]
  <2>1. i \in 0..Len(s) /\ i # 0
    BY <1>1
  <2> QED
    BY <1>2, <2>1
<1> DEFINE Good(t, k) == /\ t \in Seq(W) /\ Len(t) <= k
                         /\ \A n \in 1..Len(t) : \E i \in 1..Len(s) : t[n] = s[i]
           P == {k \in Nat : k <= Len(s) => Good(f[k], k)}
<1>4. 0 \in P
  <2>1. f[0] = <<>> /\ << >> \in Seq(W) /\ Len(<< >>) = 0
    BY <1>9, EmptySeq
  <2>2. Good(<<>>, 0)
    <3>1. 1..0 = {}
      OBVIOUS
    <3> QED
      BY <2>1, <3>1
  <2>3. Good(f[0], 0)
    BY <2>1, <2>2
  <2> HIDE DEF Good
  <2> QED
    BY <2>3
<1>5. ASSUME NEW k \in P PROVE k + 1 \in P
  <2> SUFFICES ASSUME k + 1 <= Len(s) PROVE Good(f[k + 1], k + 1)
    OBVIOUS
  <2>1. k \in Nat /\ k + 1 \in 1..Len(s) /\ k + 1 \in 0..Len(s) /\ (k + 1) - 1 = k
    BY <1>1
  <2>2. Good(f[k], k)
    BY <1>1, <2>1
  <2>3. f[k + 1] = IF k + 1 \in S THEN Append(f[k], s[k + 1]) ELSE f[k]
    <3>1. f[k + 1] = IF k + 1 \in S THEN Append(f[(k + 1) - 1], s[k + 1])
                                    ELSE f[(k + 1) - 1]
      <4> HIDE DEF P
      <4> QED
        BY <1>10, <2>1, Zenon
    <3> QED
      BY <2>1, <3>1
  <2>4. CASE k + 1 \notin S
    BY <2>1, <2>2, <2>3, <2>4
  <2>5. CASE k + 1 \in S
    <3> DEFINE t == f[k]
    <3>1. /\ t \in Seq(W) /\ s[k + 1] \in W
      BY <2>1, <2>2
    <3>2. /\ Append(t, s[k + 1]) \in Seq(W) /\ Len(Append(t, s[k + 1])) = Len(t) + 1
          /\ Append(t, s[k + 1])[Len(t) + 1] = s[k + 1]
          /\ \A n \in 1..Len(t) : Append(t, s[k + 1])[n] = t[n]
      BY <3>1, AppendProperties
    <3>3. Len(t) \in Nat
      BY <3>1
    <3>4. ASSUME NEW n \in 1..(Len(t) + 1)
          PROVE  \E i \in 1..Len(s) : Append(t, s[k + 1])[n] = s[i]
      <4>1. CASE n = Len(t) + 1
        BY <2>1, <3>2, <4>1
      <4>2. CASE n # Len(t) + 1
        <5>1. n \in 1..Len(t)
          BY <3>3, <4>2
        <5> QED
          BY <2>2, <3>2, <5>1
      <4> QED
        BY <4>1, <4>2
    <3> QED
      BY <2>1, <2>2, <2>3, <2>5, <3>2, <3>3, <3>4
  <2> QED
    BY <2>4, <2>5
<1>6. P \in SUBSET Nat
  OBVIOUS
<1>7. Nat \subseteq P
  <2> HIDE DEF P
  <2> QED
    BY <1>4, <1>5, <1>6, NatInd
<1>8. Good(f[Len(s)], Len(s))
  BY <1>1, <1>7
<1> QED
  BY <1>3, <1>8

\* walk_files gives infos of entries of the package, at most one for each.
LEMMA WalkProperties ==
  ASSUME NEW W, NEW pkg \in Seq(W), NEW globs
  PROVE  /\ walk_files(pkg, globs) \in Seq({FileInfo(pkg[i]) : i \in 1..Len(pkg)})
         /\ Len(walk_files(pkg, globs)) <= Len(pkg)
<1> DEFINE S == {i \in 1..Len(pkg) : /\ glob_match(pkg[i].at, globs)
                                     /\ ~SkippedLink(pkg[i])}
           k == Kept(pkg, S)
<1> HIDE DEF S
<1>1. /\ k \in Seq(W) /\ Len(k) <= Len(pkg)
      /\ \A n \in 1..Len(k) : \E i \in 1..Len(pkg) : k[n] = pkg[i]
  BY KeptProperties
<1>2. walk_files(pkg, globs) = [i \in 1..Len(k) |-> FileInfo(k[i])]
  BY DEF walk_files, S
<1> HIDE DEF k
<1>3. Len(k) \in Nat
  BY <1>1
<1>4. ASSUME NEW n \in 1..Len(k)
      PROVE  FileInfo(k[n]) \in {FileInfo(pkg[i]) : i \in 1..Len(pkg)}
  BY <1>1
<1> DEFINE V == {FileInfo(pkg[i]) : i \in 1..Len(pkg)}
<1> HIDE DEF V
<1>5. [i \in 1..Len(k) |-> FileInfo(k[i])] \in Seq(V)
  BY <1>3, <1>4 DEF V
<1>6. Len([i \in 1..Len(k) |-> FileInfo(k[i])]) = Len(k)
  BY <1>3
<1> QED
  BY <1>1, <1>2, <1>5, <1>6 DEF V

-----------------------------------------------------------------------------
(* Type correctness. *)

\* The suite under way has its words' calls behind it.
LEMMA CompareType ==
  ASSUME NEW attr, NEW verb, NEW x, NEW c, _compare(attr, verb, x, c)
  PROVE  /\ raised' \in BOOLEAN
         /\ \A r \in all_failures' : r \in all_failures \/ r.call = c
<1> DEFINE stops == {i \in 1..Len(files) : Outcome(files[i], attr, verb, x) # "goes on"}
           first == Min(stops)
           out   == IF stops = {} THEN "accepted" ELSE Outcome(files[first], attr, verb, x)
           r     == [call |-> c, at |-> files[first].at]
<1>1. /\ raised' = (out = "raises")
      /\ all_failures' = IF out = "fails" THEN all_failures \cup {r} ELSE all_failures
  BY DEF _compare
<1>2. r.call = c
  OBVIOUS
<1> HIDE DEF out, r
<1> QED
  BY <1>1, <1>2

\* Every stage changes its own variables only, and these keep their types: in
\* particular a package has no more infos than entries, and every failure is
\* recorded by a word that was said.
THEOREM TypeCorrect == Spec => []TypeOK
<1> USE DEF TypeOK, Stages
<1>1. Init => TypeOK
  <2> SUFFICES ASSUME Init PROVE TypeOK
    OBVIOUS
  <2>1. Packages[package] \in Seq(Range(Packages[package]))
    BY PackagesAssumption DEF Init
  <2>2. Len(<<>>) = 0 /\ Len(Packages[package]) \in Nat
    BY <2>1, EmptySeq
  <2>3. Len(infos) <= Len(Packages[package])
    BY <2>2 DEF Init
  <2> QED
    <3>1. /\ stage \in Stages /\ tmp \in {"none", "made", "removed"}
          /\ written \in {"no", "buffered", "yes"}
      BY DEF Init
    <3>2. args \in Arguments /\ package \in 1..Len(Packages)
      BY DEF Init
    <3>4. call \in Nat \ {0} /\ exit_code \in {0, 1}
      BY DEF Init
    <3>5. container \in BOOLEAN
      BY DEF Init
    <3>3. /\ logical_reverse \in BOOLEAN /\ raised \in BOOLEAN /\ current_suite = None
          /\ all_failures = {}
      BY DEF Init, NewChain
    <3> QED
      BY <2>3, <3>1, <3>2, <3>3, <3>4, <3>5
<1>2. TypeOK /\ [Next]_vars => TypeOK'
  <2> SUFFICES ASSUME TypeOK, [Next]_vars PROVE TypeOK'
    OBVIOUS
  <2>1. CASE parse_args
    BY <2>1 DEF parse_args, ChainRest, Raise
  <2>2. CASE gather_files
    BY <2>2 DEF gather_files, gather_image, gather_archive, gather_unknown, ChainRest, Raise
  <2>3. CASE explain_files
    <3>1. Packages[package] \in Seq(Range(Packages[package]))
      BY PackagesAssumption
    <3>2. Len(walked) <= Len(Packages[package])
      BY <3>1, WalkProperties DEF walked
    <3> QED
      BY <2>3, <3>2 DEF explain_files, ChainRest, Raise
  <2>4. CASE start_suite
    <3>1. UNCHANGED <<args, package, infos, manifest, call, tmp, container, written, exit_code>>
      BY <2>4 DEF start_suite
    <3>2. CASE UNCHANGED <<current_suite, logical_reverse, all_failures>> /\ raised' \in BOOLEAN
      BY <2>4, <3>1, <3>2 DEF start_suite, Raise
    <3>3. CASE /\ compare_manifest(Targets[args.suite], manifest # fixture(args.suite), 0)
               /\ stage' = "run"
      <4>1. \A r \in all_failures' : r \in all_failures \/ r.call = 0
        BY <3>3 DEF compare_manifest
      <4>2. current_suite' = Targets[args.suite] /\ UNCHANGED <<logical_reverse, raised>>
        BY <3>3 DEF compare_manifest
      <4> QED
        BY <3>1, <3>3, <4>1, <4>2
    <3> QED
      BY <2>4, <3>2, <3>3 DEF start_suite, ChainRest, chainVars, Raise
  <2>5. CASE run
    <3>1. /\ UNCHANGED <<args, package, infos, manifest, tmp, container, written, exit_code>>
          /\ stage' \in Stages
      BY <2>5 DEF run
    <3>2. CASE UNCHANGED <<call, chainVars>>
      BY <3>1, <3>2 DEF chainVars
    <3>3. CASE ~UNCHANGED <<call, chainVars>>
      <4>1. call' = call + 1
        BY <2>5, <3>3 DEF run
      <4>2. current_suite' = current_suite /\ logical_reverse' \in BOOLEAN
        BY <2>5, <3>3 DEF run, Expect, _reset, Attribute, do_not, key, _exist, Verb
      <4>3. /\ raised' \in BOOLEAN
            /\ \A r \in all_failures' : r \in all_failures \/ r.call = call
        <5>1. CASE Verb(word.verb, word.x, call)
          BY <5>1, CompareType DEF Verb
        <5>2. CASE _exist(call)
          BY <5>2 DEF _exist
        <5>3. CASE UNCHANGED <<all_failures, raised>>
          BY <5>3
        <5> QED
          BY <2>5, <3>3, <5>1, <5>2, <5>3 DEF run, Expect, Attribute, do_not, key
      <4> QED
        BY <3>1, <4>1, <4>2, <4>3
    <3> QED
      BY <3>2, <3>3
  <2>6. CASE output
    <3>1. args.output \in {"none", "file", "stdout"}
      BY ArgumentsAssumption
    <3> QED
      BY <2>6, <3>1 DEF output, ChainRest, Raise
  <2>7. CASE _print_all_fails
    BY <2>7 DEF _print_all_fails, chainVars
  <2>8. CASE cleanup
    BY <2>8 DEF cleanup, chainVars
  <2>9. CASE UNCHANGED vars
    BY <2>9 DEF vars, chainVars, runVars
  <2> QED
    BY <2>1, <2>2, <2>3, <2>4, <2>5, <2>6, <2>7, <2>8, <2>9 DEF Next
<1> QED
  BY <1>1, <1>2, PTL DEF Spec

-----------------------------------------------------------------------------
(* What the program leaves behind and delivers. *)

Leaving == {"atexit", "cleanup", "done"}
Right == infos = walked /\ manifest = write_manifest(walked, args.globs, args.opts)

\* Up to the exit handlers nothing has raised and nothing is out; the manifest
\* is the package's from the moment it exists; a container only stays behind an
\* extraction that failed; and the first handler either ends the program with
\* its failures, or there are none.
ExitInv ==
  /\ stage \notin Leaving => ~raised /\ written = "no" /\ ~container
  /\ stage \in {"arguments", "gather", "explain", "suite"} => all_failures = {}
  /\ stage \in {"arguments", "gather", "explain"} => manifest = <<>>
  /\ stage \in {"suite", "run", "output"} => Right
  /\ written # "no" => Right
  /\ container => raised /\ manifest = <<>> /\ all_failures = {}
  /\ stage \in Leaving /\ ~raised =>
       /\ args.output = "file" => written = "yes"
       /\ args.output = "stdout" => written # "no"
  /\ stage = "cleanup" => all_failures = {}
  /\ stage = "done" =>
       \/ all_failures # {} /\ exit_code = 1
       \/ all_failures = {} /\ tmp # "made" /\ written # "buffered" /\ (~raised \/ exit_code = 1)

LEMMA RightStays ==
  ASSUME UNCHANGED <<args, package, infos, manifest>>, Right
  PROVE  Right'
BY DEF Right, walked

LEMMA ExitInvariant == Spec => []ExitInv
<1> USE DEF ExitInv, Leaving
<1>1. Init => ExitInv
  BY DEF Init, NewChain
<1>2. TypeOK /\ ExitInv /\ [Next]_vars => ExitInv'
  <2> SUFFICES ASSUME TypeOK, ExitInv, [Next]_vars PROVE ExitInv'
    OBVIOUS
  <2>1. CASE parse_args
    BY <2>1 DEF parse_args, ChainRest, Raise
  <2>2. CASE gather_files
    <3>1. /\ stage = "gather" /\ stage' \in {"explain", "atexit"}
          /\ UNCHANGED <<manifest, written, all_failures>>
      BY <2>2 DEF gather_files, gather_image, gather_archive, gather_unknown, ChainRest, Raise
    <3>2. CASE stage' = "explain" /\ UNCHANGED <<raised, container>>
      BY <3>1, <3>2
    <3>3. CASE stage' = "atexit" /\ raised' = TRUE
      BY <3>1, <3>3
    <3> QED
      BY <2>2, <3>2, <3>3
         DEF gather_files, gather_image, gather_archive, gather_unknown, Raise
  <2>3. CASE explain_files
    <3>1. /\ stage = "explain" /\ UNCHANGED <<args, package, written, container, all_failures>>
      BY <2>3 DEF explain_files, ChainRest
    <3>2. CASE stage' = "atexit" /\ raised' = TRUE /\ UNCHANGED manifest
      BY <3>1, <3>2
    <3>3. CASE /\ infos' = walked /\ manifest' = write_manifest(infos', args.globs, args.opts)
               /\ stage' = "suite" /\ UNCHANGED raised
      <4>1. Right'
        BY <3>1, <3>3 DEF Right, walked
      <4> QED
        BY <3>1, <3>3, <4>1
    <3> QED
      BY <2>3, <3>2, <3>3 DEF explain_files, Raise
  <2>4. CASE start_suite \/ run
    <3>1. /\ stage \in {"suite", "run"} /\ stage' \in {"run", "output", "atexit"}
          /\ UNCHANGED <<args, package, infos, manifest, written, container>>
          /\ stage' = "atexit" => raised'
          /\ stage' # "atexit" => ~raised'
      <4>1. CASE start_suite
        BY <4>1 DEF start_suite, chainVars, Raise, compare_manifest
      <4>2. CASE run
        BY <4>2 DEF run, chainVars
      <4> QED
        BY <2>4, <4>1, <4>2
    <3>2. Right'
      BY <3>1, RightStays
    <3> QED
      BY <3>1, <3>2
  <2>5. CASE output
    <3>1. /\ stage = "output" /\ stage' = "atexit"
          /\ UNCHANGED <<args, package, infos, manifest, container, all_failures>>
      BY <2>5 DEF output, ChainRest, Raise
    <3>2. Right'
      BY <3>1, RightStays
    <3>3. \/ raised'
          \/ /\ args.output = "file" => written' = "yes"
             /\ args.output = "stdout" => written' # "no"
      BY <2>5 DEF output, Raise
    <3> QED
      BY <3>1, <3>2, <3>3
  <2>6. CASE _print_all_fails
    <3>1. /\ stage = "atexit" /\ UNCHANGED <<args, package, infos, manifest, container,
                                             all_failures, raised, written>>
      BY <2>6 DEF _print_all_fails, chainVars
    <3>2. \/ all_failures # {} /\ exit_code' = 1 /\ stage' = "done"
          \/ all_failures = {} /\ stage' = "cleanup"
      BY <2>6 DEF _print_all_fails
    <3>3. Right => Right'
      BY <3>1, RightStays
    <3> QED
      BY <3>1, <3>2, <3>3
  <2>7. CASE cleanup
    <3>1. /\ stage = "cleanup" /\ stage' = "done"
          /\ UNCHANGED <<args, package, infos, manifest, container, all_failures, raised>>
      BY <2>7 DEF cleanup, chainVars
    <3>2. /\ tmp' # "made" /\ written' # "buffered"
          /\ written' # "no" <=> written # "no"
          /\ written = "yes" => written' = "yes"
          /\ ~raised \/ exit_code' = 1
      BY <2>7 DEF cleanup, TypeOK
    <3>3. Right => Right'
      BY <3>1, RightStays
    <3> QED
      BY <3>1, <3>2, <3>3
  <2>8. CASE UNCHANGED vars
    <3>1. Right => Right'
      BY <2>8, RightStays DEF vars, runVars
    <3> QED
      BY <2>8, <3>1 DEF vars, runVars, chainVars
  <2> QED
    BY <2>1, <2>2, <2>3, <2>4, <2>5, <2>6, <2>7, <2>8 DEF Next
<1> HIDE DEF ExitInv, Leaving
<1> QED
  BY <1>1, <1>2, TypeCorrect, PTL DEF Spec

\* When the program has gone, its temporary directory is there only behind
\* reported failures, and a container only behind a failed extraction.
THEOREM NothingElseLeft == Spec => []LeftBehindExplained
<1>1. ExitInv => LeftBehindExplained
  <2> SUFFICES ASSUME ExitInv, stage = "done"
               PROVE  /\ tmp # "made" \/ (all_failures # {} /\ exit_code = 1)
                      /\ container => raised /\ manifest = <<>> /\ all_failures = {}
    BY DEF LeftBehindExplained
  <2>1. tmp # "made" \/ (all_failures # {} /\ exit_code = 1)
    BY DEF ExitInv
  <2>2. container => raised /\ manifest = <<>> /\ all_failures = {}
    BY DEF ExitInv
  <2> QED
    BY <2>1, <2>2
<1> QED
  BY <1>1, ExitInvariant, PTL

\* A run that does not raise delivers the manifest it was asked for, with the
\* one exception of standard output behind failures; what is delivered is the
\* manifest of the package's files.
THEOREM DeliversManifest == Spec => []ManifestDelivered
<1>1. TypeOK /\ ExitInv => ManifestDelivered
  <2> SUFFICES ASSUME TypeOK, ExitInv, stage = "done"
               PROVE  /\ ~raised /\ args.output = "file" => written = "yes"
                      /\ ~raised /\ args.output = "stdout" /\ all_failures = {}
                           => written = "yes"
                      /\ written = "yes" => manifest = write_manifest(walked, args.globs, args.opts)
    BY DEF ManifestDelivered
  <2>1. written \in {"no", "buffered", "yes"}
    BY DEF TypeOK
  <2> QED
    BY <2>1 DEF ExitInv, Leaving, Right
<1> QED
  BY <1>1, ExitInvariant, TypeCorrect, PTL

-----------------------------------------------------------------------------
(* The ends of a finite set of versions or positions. *)

LEMMA FiniteEnds ==
  ASSUME NEW S \in SUBSET Int, IsFiniteSet(S), S # {}
  PROVE  /\ \E m \in S : \A y \in S : m >= y
         /\ \E m \in S : \A y \in S : m <= y
<1> DEFINE Ends(T) == /\ \E m \in T : \A y \in T : m >= y
                      /\ \E m \in T : \A y \in T : m <= y
           P == {n \in Nat : \A T \in SUBSET Int :
                   IsFiniteSet(T) /\ Cardinality(T) = n /\ n # 0 => Ends(T)}
<1>1. 0 \in P
  OBVIOUS
<1>2. ASSUME NEW n \in P PROVE n + 1 \in P
  <2> SUFFICES ASSUME NEW T \in SUBSET Int, IsFiniteSet(T), Cardinality(T) = n + 1
               PROVE  Ends(T)
    OBVIOUS
  <2>1. n \in Nat /\ T # {}
    BY FS_EmptySet
  <2>2. PICK x \in T : TRUE
    BY <2>1
  <2> DEFINE R == T \ {x}
  <2>3. IsFiniteSet(R) /\ Cardinality(R) = n /\ R \in SUBSET Int
    <3>1. IsFiniteSet(R) /\ Cardinality(R) = Cardinality(T) - 1
      BY <2>2, FS_RemoveElement
    <3> QED
      BY <2>1, <3>1
  <2>4. CASE R = {}
    <3>1. \A y \in T : y = x
      BY <2>4
    <3>2. x \in Int
      BY <2>2
    <3> QED
      BY <2>2, <3>1, <3>2
  <2>5. CASE R # {}
    <3>1. n # 0
      BY <2>3, <2>5, FS_EmptySet
    <3>2. Ends(R)
      BY <2>3, <3>1
    <3>3. PICK hi \in R : \A y \in R : hi >= y
      BY <3>2
    <3>4. PICK lo \in R : \A y \in R : lo <= y
      BY <3>2
    <3>5. x \in Int /\ hi \in Int /\ lo \in Int /\ \A y \in T : y \in Int /\ (y = x \/ y \in R)
      BY <2>2
    <3>6. \E m \in T : \A y \in T : m >= y
      <4>1. CASE x >= hi
        <5>1. \A y \in T : x >= y
          BY <3>3, <3>5, <4>1
        <5> QED
          BY <2>2, <5>1
      <4>2. CASE ~(x >= hi)
        <5>1. \A y \in T : hi >= y
          BY <3>3, <3>5, <4>2
        <5> QED
          BY <5>1
      <4> QED
        BY <4>1, <4>2
    <3>7. \E m \in T : \A y \in T : m <= y
      <4>1. CASE x <= lo
        <5>1. \A y \in T : x <= y
          BY <3>4, <3>5, <4>1
        <5> QED
          BY <2>2, <5>1
      <4>2. CASE ~(x <= lo)
        <5>1. \A y \in T : lo <= y
          BY <3>4, <3>5, <4>2
        <5> QED
          BY <5>1
      <4> QED
        BY <4>1, <4>2
    <3> QED
      BY <3>6, <3>7
  <2> QED
    BY <2>4, <2>5
<1>3. Nat \subseteq P
  <2>1. P \in SUBSET Nat
    OBVIOUS
  <2> HIDE DEF P
  <2> QED
    BY <1>1, <1>2, <2>1, NatInd
<1>4. Cardinality(S) \in Nat /\ Cardinality(S) # 0
  BY FS_CardinalityType, FS_EmptySet
<1> QED
  BY <1>3, <1>4

LEMMA Extremes ==
  ASSUME NEW S \in SUBSET Int, IsFiniteSet(S), S # {}
  PROVE  /\ Max(S) \in S /\ \A y \in S : Max(S) >= y
         /\ Min(S) \in S /\ \A y \in S : Min(S) <= y
BY FiniteEnds DEF Max, Min

\* The last word of a kind before the i-th, 0 if there is none.
LEMMA LastWordIs ==
  ASSUME NEW s, NEW ops, NEW i \in Nat \ {0}
  PROVE  /\ LastWord(s, ops, i) \in 0..(i - 1)
         /\ LastWord(s, ops, i) # 0 => s[LastWord(s, ops, i)].op \in ops
         /\ \A j \in 1..(i - 1) : s[j].op \in ops => j <= LastWord(s, ops, i)
<1> DEFINE S == {0} \cup {j \in 1..(i - 1) : s[j].op \in ops}
<1>1. S \in SUBSET (0..(i - 1)) /\ S \in SUBSET Int /\ S # {}
  OBVIOUS
<1>2. IsFiniteSet(S)
  <2>1. 0 \in Int /\ i - 1 \in Int
    OBVIOUS
  <2>2. IsFiniteSet(0..(i - 1))
    BY <2>1, FS_Interval
  <2> HIDE DEF S
  <2> QED
    BY <1>1, <2>2, FS_Subset
<1>3. Max(S) \in S /\ \A y \in S : Max(S) >= y
  <2> HIDE DEF S
  <2> QED
    BY <1>1, <1>2, Extremes
<1>4. LastWord(s, ops, i) = Max(S)
  BY DEF LastWord
<1>5. \A j \in 1..(i - 1) : s[j].op \in ops => Max(S) >= j
  BY <1>3
<1>6. Max(S) \in 0..(i - 1) /\ (Max(S) # 0 => s[Max(S)].op \in ops)
  BY <1>1, <1>3
<1> QED
  BY <1>4, <1>5, <1>6

\* It is the i-th word itself before the next one, if that is of the kind.
LEMMA LastWordNext ==
  ASSUME NEW s, NEW ops, NEW i \in Nat \ {0}
  PROVE  LastWord(s, ops, i + 1) = IF s[i].op \in ops THEN i ELSE LastWord(s, ops, i)
<1> DEFINE u == LastWord(s, ops, i)
           v == LastWord(s, ops, i + 1)
<1>1. /\ u \in 0..(i - 1) /\ (u # 0 => s[u].op \in ops)
      /\ \A j \in 1..(i - 1) : s[j].op \in ops => j <= u
  BY LastWordIs
<1>2. /\ v \in 0..i /\ (v # 0 => s[v].op \in ops)
      /\ \A j \in 1..i : s[j].op \in ops => j <= v
  <2>1. i + 1 \in Nat \ {0} /\ (i + 1) - 1 = i
    OBVIOUS
  <2> HIDE DEF v
  <2> QED
    BY <2>1, LastWordIs DEF v
<1> HIDE DEF u, v
<1>3. CASE s[i].op \in ops
  <2>1. i \in 1..i
    OBVIOUS
  <2>2. i <= v
    BY <1>2, <1>3, <2>1
  <2>3. v = i
    BY <1>2, <2>2
  <2> QED
    BY <1>3, <2>3 DEF v
<1>4. CASE s[i].op \notin ops
  <2>1. v # 0 => v \in 1..(i - 1)
    BY <1>2, <1>4
  <2>2. u # 0 => u <= v
    BY <1>1, <1>2
  <2>3. v # 0 => v <= u
    BY <1>1, <1>2, <2>1
  <2>4. u = v
    BY <1>1, <1>2, <2>2, <2>3
  <2> QED
    BY <1>4, <2>4 DEF u, v
<1> QED
  BY <1>3, <1>4

-----------------------------------------------------------------------------
(* The grammar of the suites. *)

IsSeq(s) == \E W : s \in Seq(W)

Verbs == {"equal", "match", "contain", "contain_match"}
Comparisons == {"less_than", "greater_than"}

\* The verb at i is said of the attribute at a: nothing else is named in
\* between, and at most one key of it; versions are compared with a version,
\* and only the versions that a file requires of one library.
Asks(s, i, a) ==
  /\ s[a].op = "attribute" /\ s[a].x # "none"
  /\ \A j \in (a + 1)..(i - 1) : s[j].op \notin {"expect", "attribute"}
  /\ \A j \in (a + 1)..(i - 1) : s[j].op = "key" => s[j].x # "none"
  /\ \A j, k \in (a + 1)..(i - 1) : s[j].op = "key" /\ s[k].op = "key" => j = k
  /\ \/ s[i].verb \in Verbs
     \/ /\ s[i].verb \in Comparisons /\ s[i].x \in Int
        /\ s[a].x = "version_requirement"
        /\ \E j \in (a + 1)..(i - 1) : s[j].op = "key"

\* exists, at i, is said of the glob at e.
AsksFor(s, i, e) ==
  /\ s[e].op = "expect"
  /\ \A j \in (e + 1)..(i - 1) : s[j].op \notin {"expect", "attribute", "not"}

VerbsAsk(s) ==
  \A i \in 1..Len(s) : s[i].op = "verb" => \E a \in 1..(i - 1) : Asks(s, i, a)

\* What is said of the glob before it.
Clause(s) ==
  /\ IsSeq(s) /\ VerbsAsk(s)
  /\ \A i \in 1..Len(s) : s[i].op \notin {"expect", "exists"}

\* Whole sentences; the empty text is one.
Speech(s) ==
  /\ IsSeq(s) /\ VerbsAsk(s)
  /\ \A i \in 1..Len(s) : s[i].op = "exists" => \E e \in 1..(i - 1) : AsksFor(s, i, e)
  /\ s # <<>> => s[1].op = "expect"

Begun(s) == Speech(s) /\ s # <<>>

LEMMA Joined ==
  ASSUME NEW s, NEW t, IsSeq(s), IsSeq(t)
  PROVE  /\ IsSeq(s \o t)
         /\ Len(s) \in Nat /\ Len(t) \in Nat /\ Len(s \o t) = Len(s) + Len(t)
         /\ \A i \in 1..Len(s) : (s \o t)[i] = s[i]
         /\ \A i \in 1..Len(t) : (s \o t)[Len(s) + i] = t[i]
         /\ s = <<>> => s \o t = t
         /\ s = <<>> <=> Len(s) = 0
<1>1. PICK V : s \in Seq(V)
  BY DEF IsSeq
<1>2. PICK W : t \in Seq(W)
  BY DEF IsSeq
<1> DEFINE U == V \cup W
<1>3. s \in Seq(U) /\ t \in Seq(U)
  BY <1>1, <1>2
<1> HIDE DEF U
<1>4. /\ s \o t \in Seq(U) /\ Len(s \o t) = Len(s) + Len(t)
      /\ \A i \in 1..(Len(s) + Len(t)) : (s \o t)[i] =
           IF i <= Len(s) THEN s[i] ELSE t[i - Len(s)]
  BY <1>3, ConcatProperties
<1>5. Len(s) \in Nat /\ Len(t) \in Nat
  BY <1>3
<1>6. \A i \in 1..Len(s) : (s \o t)[i] = s[i]
  BY <1>4, <1>5
<1>7. ASSUME NEW i \in 1..Len(t) PROVE (s \o t)[Len(s) + i] = t[i]
  <2>1. Len(s) + i \in 1..(Len(s) + Len(t)) /\ ~(Len(s) + i <= Len(s))
        /\ (Len(s) + i) - Len(s) = i
    BY <1>5
  <2>2. (s \o t)[Len(s) + i] = IF Len(s) + i <= Len(s) THEN s[Len(s) + i]
                               ELSE t[(Len(s) + i) - Len(s)]
    BY <1>4, <2>1
  <2> QED
    BY <2>1, <2>2
<1>8. s = <<>> => s \o t = t
  BY <1>3, ConcatEmptySeq
<1>9. s = <<>> <=> Len(s) = 0
  BY <1>3, EmptySeq
<1> QED
  BY <1>4, <1>5, <1>6, <1>7, <1>8, <1>9 DEF IsSeq

\* A piece of a text reads in the text as it does alone.
LEMMA AsksInside ==
  ASSUME NEW s, NEW u, NEW n \in Nat, NEW d \in Nat,
         \A j \in 1..n : u[d + j] = s[j],
         NEW i \in 1..n, NEW a \in 1..(i - 1), Asks(s, i, a)
  PROVE  Asks(u, d + i, d + a)
<1>1. u[d + i] = s[i] /\ u[d + a] = s[a]
  OBVIOUS
<1>2. ASSUME NEW j \in (d + a + 1)..(d + i - 1)
      PROVE  /\ j - d \in (a + 1)..(i - 1) /\ u[j] = s[j - d] /\ j \in Int
  <2>1. j - d \in (a + 1)..(i - 1) /\ j - d \in 1..n /\ d + (j - d) = j /\ j \in Int
    OBVIOUS
  <2>2. u[d + (j - d)] = s[j - d]
    BY <2>1
  <2> QED
    BY <2>1, <2>2
<1>3. ASSUME NEW j \in (a + 1)..(i - 1)
      PROVE  d + j \in (d + a + 1)..(d + i - 1) /\ u[d + j] = s[j]
  OBVIOUS
<1>4. ASSUME NEW j \in (d + a + 1)..(d + i - 1), NEW k \in (d + a + 1)..(d + i - 1),
             u[j].op = "key", u[k].op = "key"
      PROVE  j = k
  <2>1. j - d = k - d
    BY <1>2, <1>4 DEF Asks
  <2> QED
    BY <1>2, <2>1
<1>5. \A j \in (d + a + 1)..(d + i - 1) : u[j].op \notin {"expect", "attribute"}
  BY <1>2 DEF Asks
<1>6. \A j \in (d + a + 1)..(d + i - 1) : u[j].op = "key" => u[j].x # "none"
  BY <1>2 DEF Asks
<1>7. CASE s[i].verb \in Verbs
  BY <1>1, <1>4, <1>5, <1>6, <1>7 DEF Asks
<1>8. CASE /\ s[i].verb \in Comparisons /\ s[i].x \in Int
           /\ s[a].x = "version_requirement"
           /\ \E j \in (a + 1)..(i - 1) : s[j].op = "key"
  <2>1. \E j \in (d + a + 1)..(d + i - 1) : u[j].op = "key"
    BY <1>3, <1>8
  <2> QED
    BY <1>1, <1>4, <1>5, <1>6, <1>8, <2>1 DEF Asks
<1> QED
  BY <1>7, <1>8 DEF Asks

LEMMA AsksForInside ==
  ASSUME NEW s, NEW u, NEW n \in Nat, NEW d \in Nat,
         \A j \in 1..n : u[d + j] = s[j],
         NEW i \in 1..n, NEW e \in 1..(i - 1), AsksFor(s, i, e)
  PROVE  AsksFor(u, d + i, d + e)
<1>1. u[d + e] = s[e]
  OBVIOUS
<1>2. ASSUME NEW j \in (d + e + 1)..(d + i - 1)
      PROVE  j - d \in (e + 1)..(i - 1) /\ u[j] = s[j - d]
  <2>1. j - d \in (e + 1)..(i - 1) /\ j - d \in 1..n /\ d + (j - d) = j
    OBVIOUS
  <2>2. u[d + (j - d)] = s[j - d]
    BY <2>1
  <2> QED
    BY <2>1, <2>2
<1> QED
  BY <1>1, <1>2 DEF AsksFor

\* So texts join to texts.
LEMMA VerbsAskJoined ==
  ASSUME NEW s, NEW t, IsSeq(s), IsSeq(t), VerbsAsk(s), VerbsAsk(t)
  PROVE  VerbsAsk(s \o t)
<1> DEFINE u == s \o t
<1>1. /\ Len(s) \in Nat /\ Len(t) \in Nat /\ Len(u) = Len(s) + Len(t)
      /\ \A i \in 1..Len(s) : u[i] = s[i]
      /\ \A i \in 1..Len(t) : u[Len(s) + i] = t[i]
  BY Joined
<1> HIDE DEF u
<1> SUFFICES ASSUME NEW i \in 1..Len(u), u[i].op = "verb"
             PROVE  \E a \in 1..(i - 1) : Asks(u, i, a)
  BY DEF VerbsAsk, u
<1>2. CASE i \in 1..Len(s)
  <2>1. PICK a \in 1..(i - 1) : Asks(s, i, a)
    BY <1>1, <1>2 DEF VerbsAsk
  <2>2. \A j \in 1..Len(s) : u[0 + j] = s[j]
    BY <1>1
  <2>3. Asks(u, 0 + i, 0 + a)
    BY <1>1, <1>2, <2>1, <2>2, AsksInside
  <2> QED
    BY <2>3
<1>3. CASE i \notin 1..Len(s)
  <2> DEFINE k == i - Len(s)
  <2>1. k \in 1..Len(t) /\ Len(s) + k = i /\ u[i] = t[k]
    <3>1. k \in 1..Len(t) /\ Len(s) + k = i
      BY <1>1, <1>3
    <3>2. u[Len(s) + k] = t[k]
      BY <1>1, <3>1
    <3> QED
      BY <3>1, <3>2
  <2> HIDE DEF k
  <2>2. PICK a \in 1..(k - 1) : Asks(t, k, a)
    BY <2>1 DEF VerbsAsk
  <2>3. Asks(u, Len(s) + k, Len(s) + a)
    BY <1>1, <2>1, <2>2, AsksInside
  <2>4. Len(s) + a \in 1..(i - 1)
    BY <1>1, <2>1
  <2> QED
    BY <2>1, <2>3, <2>4
<1> QED
  BY <1>2, <1>3

LEMMA SpeechJoined ==
  ASSUME NEW s, NEW t, Speech(s), Speech(t)
  PROVE  Speech(s \o t)
<1> DEFINE u == s \o t
<1>1. /\ IsSeq(u) /\ Len(s) \in Nat /\ Len(t) \in Nat /\ Len(u) = Len(s) + Len(t)
      /\ \A i \in 1..Len(s) : u[i] = s[i]
      /\ \A i \in 1..Len(t) : u[Len(s) + i] = t[i]
      /\ s = <<>> => u = t
      /\ s = <<>> <=> Len(s) = 0
  BY Joined DEF Speech
<1>2. VerbsAsk(u)
  BY VerbsAskJoined DEF Speech
<1> HIDE DEF u
<1>3. ASSUME NEW i \in 1..Len(u), u[i].op = "exists"
      PROVE  \E e \in 1..(i - 1) : AsksFor(u, i, e)
  <2>1. CASE i \in 1..Len(s)
    <3>1. PICK e \in 1..(i - 1) : AsksFor(s, i, e)
      BY <1>1, <1>3, <2>1 DEF Speech
    <3>2. \A j \in 1..Len(s) : u[0 + j] = s[j]
      BY <1>1
    <3>3. AsksFor(u, 0 + i, 0 + e)
      BY <1>1, <2>1, <3>1, <3>2, AsksForInside
    <3> QED
      BY <3>3
  <2>2. CASE i \notin 1..Len(s)
    <3> DEFINE k == i - Len(s)
    <3>1. k \in 1..Len(t) /\ Len(s) + k = i /\ u[i] = t[k]
      <4>1. k \in 1..Len(t) /\ Len(s) + k = i
        BY <1>1, <2>2
      <4>2. u[Len(s) + k] = t[k]
        BY <1>1, <4>1
      <4> QED
        BY <4>1, <4>2
    <3> HIDE DEF k
    <3>2. PICK e \in 1..(k - 1) : AsksFor(t, k, e)
      BY <1>3, <3>1 DEF Speech
    <3>3. AsksFor(u, Len(s) + k, Len(s) + e)
      BY <1>1, <3>1, <3>2, AsksForInside
    <3>4. Len(s) + e \in 1..(i - 1)
      BY <1>1, <3>1
    <3> QED
      BY <3>1, <3>3, <3>4
  <2> QED
    BY <2>1, <2>2
<1>4. u # <<>> => u[1].op = "expect"
  <2>1. CASE s = <<>>
    BY <1>1, <2>1 DEF Speech
  <2>2. CASE s # <<>>
    <3>1. 1 \in 1..Len(s)
      BY <1>1, <2>2
    <3> QED
      BY <1>1, <2>2, <3>1 DEF Speech
  <2> QED
    BY <2>1, <2>2
<1>5. Speech(u)
  BY <1>1, <1>2, <1>3, <1>4 DEF Speech
<1> QED
  BY <1>5 DEF u

LEMMA BegunJoined ==
  ASSUME NEW s, NEW t, Begun(s), Speech(t)
  PROVE  Begun(s \o t)
<1>1. Speech(s \o t)
  BY SpeechJoined DEF Begun
<1>2. /\ IsSeq(s \o t) /\ Len(s) \in Nat /\ Len(t) \in Nat /\ Len(s \o t) = Len(s) + Len(t)
      /\ Len(s) # 0
  BY Joined DEF Begun, Speech
<1>3. s \o t # <<>>
  BY <1>2
<1> QED
  BY <1>1, <1>3 DEF Begun

LEMMA ClauseJoined ==
  ASSUME NEW s, NEW t, Clause(s), Clause(t)
  PROVE  Clause(s \o t)
<1> DEFINE u == s \o t
<1>1. /\ IsSeq(u) /\ Len(s) \in Nat /\ Len(t) \in Nat /\ Len(u) = Len(s) + Len(t)
      /\ \A i \in 1..Len(s) : u[i] = s[i]
      /\ \A i \in 1..Len(t) : u[Len(s) + i] = t[i]
  BY Joined DEF Clause
<1>2. VerbsAsk(u)
  BY VerbsAskJoined DEF Clause
<1> HIDE DEF u
<1>3. ASSUME NEW i \in 1..Len(u) PROVE u[i].op \notin {"expect", "exists"}
  <2>1. CASE i \in 1..Len(s)
    BY <1>1, <2>1 DEF Clause
  <2>2. CASE i \notin 1..Len(s)
    <3> DEFINE k == i - Len(s)
    <3>1. k \in 1..Len(t) /\ Len(s) + k = i
      BY <1>1, <2>2
    <3>2. u[Len(s) + k] = t[k]
      BY <1>1, <3>1
    <3> QED
      BY <3>1, <3>2 DEF Clause
  <2> QED
    BY <2>1, <2>2
<1>4. Clause(u)
  BY <1>1, <1>2, <1>3 DEF Clause
<1> QED
  BY <1>4 DEF u

\* And a clause can be said on whatever has begun.
LEMMA BegunSaid ==
  ASSUME NEW s, NEW t, Begun(s), Clause(t)
  PROVE  Begun(s \o t)
<1> DEFINE u == s \o t
<1>1. /\ IsSeq(u) /\ Len(s) \in Nat /\ Len(t) \in Nat /\ Len(u) = Len(s) + Len(t)
      /\ \A i \in 1..Len(s) : u[i] = s[i]
      /\ \A i \in 1..Len(t) : u[Len(s) + i] = t[i]
      /\ Len(s) # 0
  BY Joined DEF Begun, Speech, Clause
<1>2. VerbsAsk(u)
  BY VerbsAskJoined DEF Begun, Speech, Clause
<1> HIDE DEF u
<1>3. ASSUME NEW i \in 1..Len(u), u[i].op = "exists"
      PROVE  \E e \in 1..(i - 1) : AsksFor(u, i, e)
  <2>1. i \in 1..Len(s)
    <3> SUFFICES ASSUME i \notin 1..Len(s) PROVE FALSE
      OBVIOUS
    <3> DEFINE k == i - Len(s)
    <3>1. k \in 1..Len(t) /\ Len(s) + k = i
      BY <1>1
    <3>2. u[Len(s) + k] = t[k]
      BY <1>1, <3>1
    <3> QED
      BY <1>3, <3>1, <3>2 DEF Clause
  <2>2. PICK e \in 1..(i - 1) : AsksFor(s, i, e)
    BY <1>1, <1>3, <2>1 DEF Begun, Speech
  <2>3. \A j \in 1..Len(s) : u[0 + j] = s[j]
    BY <1>1
  <2>4. AsksFor(u, 0 + i, 0 + e)
    BY <1>1, <2>1, <2>2, <2>3, AsksForInside
  <2> QED
    BY <2>4
<1>4. u[1].op = "expect" /\ u # <<>>
  <2>1. 1 \in 1..Len(s) /\ Len(u) # 0
    BY <1>1
  <2>2. u # <<>>
    BY <2>1
  <2> QED
    BY <1>1, <2>1, <2>2 DEF Begun, Speech
<1>5. Begun(u)
  BY <1>1, <1>2, <1>3, <1>4 DEF Begun, Speech
<1> QED
  BY <1>5 DEF u

-----------------------------------------------------------------------------
(* The suites are texts of that grammar. *)

LEMMA Word == ASSUME NEW w PROVE IsSeq(<<w>>) /\ Len(<<w>>) = 1 /\ <<w>>[1] = w
<1>1. <<w>> \in Seq({w})
  OBVIOUS
<1> QED
  BY <1>1 DEF IsSeq

\* A word on its own.
Single(s) == IsSeq(s) /\ Len(s) = 1

LEMMA OneMore ==
  ASSUME NEW s, NEW t, IsSeq(s), Single(t)
  PROVE  /\ IsSeq(s \o t) /\ Len(s) \in Nat /\ Len(s \o t) = Len(s) + 1
         /\ \A i \in 1..Len(s) : (s \o t)[i] = s[i]
         /\ (s \o t)[Len(s) + 1] = t[1]
<1>1. IsSeq(t)
  BY DEF Single
<1>2. /\ IsSeq(s \o t) /\ Len(s \o t) = Len(s) + Len(t) /\ Len(s) \in Nat
      /\ \A i \in 1..Len(s) : (s \o t)[i] = s[i]
      /\ \A i \in 1..Len(t) : (s \o t)[Len(s) + i] = t[i]
  BY <1>1, Joined
<1>3. Len(t) = 1 /\ 1 \in 1..Len(t)
  BY DEF Single
<1>4. (s \o t)[Len(s) + 1] = t[1]
  BY <1>2, <1>3
<1> QED
  BY <1>2, <1>3, <1>4

\* Phrases of two, three and four words.
Two(s, a, b)         == IsSeq(s) /\ Len(s) = 2 /\ s[1] = a[1] /\ s[2] = b[1]
Three(s, a, b, c)    == /\ IsSeq(s) /\ Len(s) = 3
                        /\ s[1] = a[1] /\ s[2] = b[1] /\ s[3] = c[1]
Four(s, a, b, c, d)  == /\ IsSeq(s) /\ Len(s) = 4
                        /\ s[1] = a[1] /\ s[2] = b[1] /\ s[3] = c[1] /\ s[4] = d[1]

LEMMA TwoWords ==
  ASSUME NEW a, NEW b, Single(a), Single(b)
  PROVE  Two(a \o b, a, b)
<1>1. IsSeq(a)
  BY DEF Single
<1>2. /\ IsSeq(a \o b) /\ Len(a \o b) = Len(a) + 1
      /\ \A i \in 1..Len(a) : (a \o b)[i] = a[i]
      /\ (a \o b)[Len(a) + 1] = b[1]
  BY <1>1, OneMore
<1>3. Len(a) = 1
  BY DEF Single
<1> QED
  BY <1>2, <1>3 DEF Two

LEMMA ThreeWords ==
  ASSUME NEW a, NEW b, NEW c, Single(a), Single(b), Single(c)
  PROVE  Three(a \o b \o c, a, b, c)
<1> DEFINE s == a \o b
<1>1. IsSeq(s) /\ Len(s) = 2 /\ s[1] = a[1] /\ s[2] = b[1]
  BY TwoWords DEF Two
<1> HIDE DEF s
<1>2. /\ IsSeq(s \o c) /\ Len(s \o c) = Len(s) + 1
      /\ \A i \in 1..Len(s) : (s \o c)[i] = s[i]
      /\ (s \o c)[Len(s) + 1] = c[1]
  <2>1. IsSeq(s)
    BY <1>1
  <2> QED
    BY <2>1, OneMore
<1>3. (s \o c)[1] = s[1] /\ (s \o c)[2] = s[2]
  BY <1>1, <1>2
<1>4. Three(s \o c, a, b, c)
  BY <1>1, <1>2, <1>3 DEF Three
<1> QED
  BY <1>4 DEF s

LEMMA FourWords ==
  ASSUME NEW a, NEW b, NEW c, NEW d, Single(a), Single(b), Single(c), Single(d)
  PROVE  Four(a \o b \o c \o d, a, b, c, d)
<1> DEFINE s == a \o b \o c
<1>1. IsSeq(s) /\ Len(s) = 3 /\ s[1] = a[1] /\ s[2] = b[1] /\ s[3] = c[1]
  <2>1. Three(s, a, b, c)
    BY ThreeWords
  <2> QED
    BY <2>1 DEF Three
<1> HIDE DEF s
<1>2. /\ IsSeq(s \o d) /\ Len(s \o d) = Len(s) + 1
      /\ \A i \in 1..Len(s) : (s \o d)[i] = s[i]
      /\ (s \o d)[Len(s) + 1] = d[1]
  <2>1. IsSeq(s)
    BY <1>1
  <2> QED
    BY <2>1, OneMore
<1>3. (s \o d)[1] = s[1] /\ (s \o d)[2] = s[2] /\ (s \o d)[3] = s[3]
  BY <1>1, <1>2
<1>4. Four(s \o d, a, b, c, d)
  BY <1>1, <1>2, <1>3 DEF Four
<1> QED
  BY <1>4 DEF s

\* expect(..) begins a text, and so does expect(..).exists().
LEMMA BegunExpect == ASSUME NEW globs PROVE Begun(Suites!expect(globs))
<1> DEFINE s == Suites!expect(globs)
<1>1. IsSeq(s) /\ Len(s) = 1 /\ s[1] = [op |-> "expect", x |-> globs]
  BY Word DEF Suites!expect, Suites!attr, Suites!keyed, Suites!is_not, Suites!exists,
                 Suites!says
<1> HIDE DEF s
<1>2. s[1].op = "expect" /\ s # <<>>
  BY <1>1
<1>3. \A i \in 1..Len(s) : s[i].op = "expect"
  BY <1>1, <1>2
<1> QED
  BY <1>1, <1>2, <1>3 DEF Begun, Speech, VerbsAsk, s

LEMMA BegunThere == ASSUME NEW globs PROVE Begun(Suites!There(globs))
<1> DEFINE e == Suites!expect(globs)
           x == Suites!exists
           s == e \o x
<1>1. /\ Single(e) /\ e[1] = [op |-> "expect", x |-> globs]
      /\ Single(x) /\ x[1] = [op |-> "exists"]
  BY Word DEF Suites!expect, Suites!attr, Suites!keyed, Suites!is_not, Suites!exists,
                 Suites!says, Single
<1> HIDE DEF e, x
<1>2. IsSeq(s) /\ Len(s) = 2 /\ s[1] = e[1] /\ s[2] = x[1]
  <2>1. Single(e) /\ Single(x)
    BY <1>1
  <2>2. Two(s, e, x)
    BY <2>1, TwoWords
  <2> QED
    BY <2>2 DEF Two
<1> HIDE DEF s
<1>3. s[1].op = "expect" /\ s[2].op = "exists" /\ s # <<>>
  BY <1>1, <1>2
<1>4. AsksFor(s, 2, 1) /\ 1 \in 1..(2 - 1)
  BY <1>3 DEF AsksFor
<1>5. \A i \in 1..Len(s) : s[i].op = "expect" \/ i = 2
  BY <1>2, <1>3
<1>6. Begun(s)
  BY <1>2, <1>3, <1>4, <1>5 DEF Begun, Speech, VerbsAsk
<1> QED
  BY <1>6 DEF s, e, x, Suites!There

\* The phrases that are said on it.
LEMMA ClauseIs ==
  ASSUME NEW name, NEW verb \in Verbs, NEW x, name # "none"
  PROVE  Clause(Suites!Is(name, verb, x))
<1> DEFINE a == Suites!attr(name)
           v == Suites!says(verb, x)
           s == a \o v
<1>1. /\ Single(a) /\ a[1] = [op |-> "attribute", x |-> name]
      /\ Single(v) /\ v[1] = [op |-> "verb", verb |-> verb, x |-> x]
  BY Word DEF Suites!expect, Suites!attr, Suites!keyed, Suites!is_not, Suites!exists,
                 Suites!says, Single
<1> HIDE DEF a, v
<1>2. IsSeq(s) /\ Len(s) = 2 /\ s[1] = a[1] /\ s[2] = v[1]
  <2>1. Single(a) /\ Single(v)
    BY <1>1
  <2>2. Two(s, a, v)
    BY <2>1, TwoWords
  <2> QED
    BY <2>2 DEF Two
<1> HIDE DEF s
<1>3. s[1].op = "attribute" /\ s[1].x = name /\ s[2].op = "verb" /\ s[2].verb = verb
  BY <1>1, <1>2
<1>4. Asks(s, 2, 1) /\ 1 \in 1..(2 - 1)
  BY <1>3 DEF Asks
<1>5. \A i \in 1..Len(s) : i = 1 \/ i = 2
  BY <1>2
<1>6. Clause(s)
  BY <1>2, <1>3, <1>4, <1>5 DEF Clause, VerbsAsk
<1> QED
  BY <1>6 DEF s, a, v, Suites!Is

LEMMA ClauseIsNot ==
  ASSUME NEW name, NEW verb \in Verbs, NEW x, name # "none"
  PROVE  Clause(Suites!IsNot(name, verb, x))
<1> DEFINE a == Suites!attr(name)
           n == Suites!is_not
           v == Suites!says(verb, x)
           s == a \o n \o v
<1>1. /\ Single(a) /\ a[1] = [op |-> "attribute", x |-> name]
      /\ Single(n) /\ n[1] = [op |-> "not"]
      /\ Single(v) /\ v[1] = [op |-> "verb", verb |-> verb, x |-> x]
  BY Word DEF Suites!expect, Suites!attr, Suites!keyed, Suites!is_not, Suites!exists,
                 Suites!says, Single
<1> HIDE DEF a, n, v
<1>2. Single(a) /\ Single(n) /\ Single(v)
  BY <1>1
<1>3. IsSeq(s) /\ Len(s) = 3 /\ s[1] = a[1] /\ s[2] = n[1] /\ s[3] = v[1]
  <2>1. Three(s, a, n, v)
    BY <1>2, ThreeWords
  <2> QED
    BY <2>1 DEF Three
<1> HIDE DEF s
<1>4. /\ s[1].op = "attribute" /\ s[1].x = name /\ s[2].op = "not"
      /\ s[3].op = "verb" /\ s[3].verb = verb
  BY <1>1, <1>3
<1>5. Asks(s, 3, 1) /\ 1 \in 1..(3 - 1)
  <2>1. \A j \in (1 + 1)..(3 - 1) : j = 2
    OBVIOUS
  <2> QED
    BY <1>4, <2>1 DEF Asks
<1>6. \A i \in 1..Len(s) : i = 1 \/ i = 2 \/ i = 3
  BY <1>3
<1>7. Clause(s)
  BY <1>3, <1>4, <1>5, <1>6 DEF Clause, VerbsAsk
<1> QED
  BY <1>7 DEF s, a, n, v, Suites!IsNot

LEMMA ClauseBelow ==
  ASSUME NEW lib, NEW version \in Int, lib # "none"
  PROVE  Clause(Suites!Below(lib, version))
<1> DEFINE a == Suites!attr("version_requirement")
           n == Suites!keyed(lib)
           v == Suites!says("less_than", version)
           s == a \o n \o v
<1>1. /\ Single(a) /\ a[1] = [op |-> "attribute", x |-> "version_requirement"]
      /\ Single(n) /\ n[1] = [op |-> "key", x |-> lib]
      /\ Single(v)
      /\ v[1] = [op |-> "verb", verb |-> "less_than", x |-> version]
  BY Word DEF Suites!expect, Suites!attr, Suites!keyed, Suites!is_not, Suites!exists,
                 Suites!says, Single
<1> HIDE DEF a, n, v
<1>2. Single(a) /\ Single(n) /\ Single(v)
  BY <1>1
<1>3. IsSeq(s) /\ Len(s) = 3 /\ s[1] = a[1] /\ s[2] = n[1] /\ s[3] = v[1]
  <2>1. Three(s, a, n, v)
    BY <1>2, ThreeWords
  <2> QED
    BY <2>1 DEF Three
<1> HIDE DEF s
<1>4. /\ s[1].op = "attribute" /\ s[1].x = "version_requirement"
      /\ s[2].op = "key" /\ s[2].x = lib
      /\ s[3].op = "verb" /\ s[3].verb = "less_than" /\ s[3].x = version
  BY <1>1, <1>3
<1>5. Asks(s, 3, 1) /\ 1 \in 1..(3 - 1)
  <2>1. 2 \in (1 + 1)..(3 - 1) /\ \A j \in (1 + 1)..(3 - 1) : j = 2
    OBVIOUS
  <2> QED
    BY <1>4, <2>1 DEF Asks, Comparisons
<1>6. \A i \in 1..Len(s) : i = 1 \/ i = 2 \/ i = 3
  BY <1>3
<1>7. Clause(s)
  BY <1>3, <1>4, <1>5, <1>6 DEF Clause, VerbsAsk
<1> QED
  BY <1>7 DEF s, a, n, v, Suites!Below

LEMMA ClauseNotAbove ==
  ASSUME NEW lib, NEW version \in Int, lib # "none"
  PROVE  Clause(Suites!NotAbove(lib, version))
<1> DEFINE a == Suites!attr("version_requirement")
           k == Suites!keyed(lib)
           n == Suites!is_not
           v == Suites!says("greater_than", version)
           s == a \o k \o n \o v
<1>1. /\ Single(a) /\ a[1] = [op |-> "attribute", x |-> "version_requirement"]
      /\ Single(k) /\ k[1] = [op |-> "key", x |-> lib]
      /\ Single(n) /\ n[1] = [op |-> "not"]
      /\ Single(v)
      /\ v[1] = [op |-> "verb", verb |-> "greater_than", x |-> version]
  BY Word DEF Suites!expect, Suites!attr, Suites!keyed, Suites!is_not, Suites!exists,
                 Suites!says, Single
<1> HIDE DEF a, k, n, v
<1>2. Single(a) /\ Single(k) /\ Single(n) /\ Single(v)
  BY <1>1
<1>4. IsSeq(s) /\ Len(s) = 4 /\ s[1] = a[1] /\ s[2] = k[1] /\ s[3] = n[1] /\ s[4] = v[1]
  <2>1. Four(s, a, k, n, v)
    BY <1>2, FourWords
  <2> QED
    BY <2>1 DEF Four
<1> HIDE DEF s
<1>5. /\ s[1].op = "attribute" /\ s[1].x = "version_requirement"
      /\ s[2].op = "key" /\ s[2].x = lib /\ s[3].op = "not"
      /\ s[4].op = "verb" /\ s[4].verb = "greater_than" /\ s[4].x = version
  BY <1>1, <1>4
<1>6. Asks(s, 4, 1) /\ 1 \in 1..(4 - 1)
  <2>1. 2 \in (1 + 1)..(4 - 1) /\ \A j \in (1 + 1)..(4 - 1) : j = 2 \/ j = 3
    OBVIOUS
  <2> QED
    BY <1>5, <2>1 DEF Asks, Comparisons
<1>7. \A i \in 1..Len(s) : i = 1 \/ i = 2 \/ i = 3 \/ i = 4
  BY <1>4
<1>8. Clause(s)
  BY <1>4, <1>5, <1>6, <1>7 DEF Clause, VerbsAsk
<1> QED
  BY <1>8 DEF s, a, k, n, v, Suites!NotAbove

\* One attribute, two verbs.
LEMMA ClausePatched == Clause(Suites!Patched)
<1> DEFINE a == Suites!attr("functions")
           v == Suites!says("contain", Suites!PatchedFunctions[1])
           w == Suites!says("contain", Suites!PatchedFunctions[2])
           s == a \o v \o w
<1>1. /\ Single(a) /\ a[1] = [op |-> "attribute", x |-> "functions"]
      /\ Single(v)
      /\ v[1] = [op |-> "verb", verb |-> "contain", x |-> Suites!PatchedFunctions[1]]
      /\ Single(w)
      /\ w[1] = [op |-> "verb", verb |-> "contain", x |-> Suites!PatchedFunctions[2]]
  BY Word DEF Suites!expect, Suites!attr, Suites!keyed, Suites!is_not, Suites!exists,
                 Suites!says, Single
<1> HIDE DEF a, v, w
<1>2. Single(a) /\ Single(v) /\ Single(w)
  BY <1>1
<1>3. IsSeq(s) /\ Len(s) = 3 /\ s[1] = a[1] /\ s[2] = v[1] /\ s[3] = w[1]
  <2>1. Three(s, a, v, w)
    BY <1>2, ThreeWords
  <2> QED
    BY <2>1 DEF Three
<1> HIDE DEF s
<1>4. /\ s[1].op = "attribute" /\ s[1].x = "functions"
      /\ s[2].op = "verb" /\ s[2].verb = "contain"
      /\ s[3].op = "verb" /\ s[3].verb = "contain"
  BY <1>1, <1>3
<1>5. Asks(s, 2, 1) /\ 1 \in 1..(2 - 1)
  BY <1>4 DEF Asks, Verbs
<1>6. Asks(s, 3, 1) /\ 1 \in 1..(3 - 1)
  <2>1. \A j \in (1 + 1)..(3 - 1) : j = 2
    OBVIOUS
  <2> QED
    BY <1>4, <2>1 DEF Asks, Verbs
<1>7. \A i \in 1..Len(s) : i = 1 \/ i = 2 \/ i = 3
  BY <1>3
<1>8. Clause(s)
  BY <1>3, <1>4, <1>5, <1>6, <1>7 DEF Clause, VerbsAsk
<1> QED
  BY <1>8 DEF s, a, v, w, Suites!Patched

LEMMA ClauseOpenSSLBelow == ASSUME NEW minor \in Int PROVE Clause(Suites!OpenSSLBelow(minor))
<1>1. Suites!OPENSSL(minor) \in Int
  BY DEF Suites!OPENSSL
<1>2. /\ Clause(Suites!Below("libssl.so.3", Suites!OPENSSL(minor)))
      /\ Clause(Suites!Below("libcrypto.so.3", Suites!OPENSSL(minor)))
  BY <1>1, ClauseBelow
<1> QED
  BY <1>2, ClauseJoined DEF Suites!OpenSSLBelow

\* The facts that every suite is put together with.
Words ==
  /\ \A g : Begun(Suites!There(g)) /\ Begun(Suites!expect(g))
  /\ \A name, verb, x : name # "none" /\ verb \in Verbs =>
       Clause(Suites!Is(name, verb, x)) /\ Clause(Suites!IsNot(name, verb, x))
  /\ \A lib, version : lib # "none" /\ version \in Int => Clause(Suites!NotAbove(lib, version))
  /\ Clause(Suites!Patched) /\ Clause(Suites!OpenSSLBelow(3))
Joins ==
  /\ \A s, t : Begun(s) /\ Begun(t) => Begun(s \o t)
  /\ \A s, t : Begun(s) /\ Clause(t) => Begun(s \o t)

LEMMA WordsJoin == Words /\ Joins
<1>1. Words
  <2>1. \A g : Begun(Suites!There(g)) /\ Begun(Suites!expect(g))
    BY BegunThere, BegunExpect
  <2>2. \A name, verb, x : name # "none" /\ verb \in Verbs =>
          Clause(Suites!Is(name, verb, x)) /\ Clause(Suites!IsNot(name, verb, x))
    BY ClauseIs, ClauseIsNot
  <2>3. \A lib, version : lib # "none" /\ version \in Int =>
          Clause(Suites!NotAbove(lib, version))
    BY ClauseNotAbove
  <2> QED
    BY <2>1, <2>2, <2>3, ClausePatched, ClauseOpenSSLBelow DEF Words
<1>2. \A s, t : Begun(s) /\ Begun(t) => Begun(s \o t)
  BY BegunJoined DEF Begun
<1> QED
  BY <1>1, <1>2, BegunSaid DEF Joins

LEMMA BegunIncluded == Begun(Suites!Included)
BY WordsJoin, Zenon DEF Words, Joins, Suites!Included

LEMMA BegunLinked == Begun(Suites!Linked)
BY WordsJoin, Zenon DEF Words, Joins, Suites!Linked, Verbs

LEMMA BegunCompiled == Begun(Suites!Compiled)
BY WordsJoin, Zenon DEF Words, Joins, Suites!Compiled, Verbs

LEMMA BegunDepends == ASSUME NEW libcrypt PROVE Begun(Suites!Depends(libcrypt))
BY WordsJoin, Zenon DEF Words, Joins, Suites!Depends, Verbs

LEMMA BegunCommon == ASSUME NEW libcrypt PROVE Begun(Suites!common_suites(libcrypt))
BY WordsJoin, BegunIncluded, BegunLinked, BegunCompiled, BegunDepends, Zenon
   DEF Joins, Suites!common_suites

LEMMA BegunLibc == ASSUME NEW max \in Int PROVE Begun(Suites!LibcNotAbove(max))
<1>1. Suites!GLIBC(max) \in Int
  BY DEF Suites!GLIBC
<1> QED
  BY <1>1, WordsJoin, Zenon DEF Words, Joins, Suites!LibcNotAbove

LEMMA BegunLibcxx == ASSUME NEW version \in Int PROVE Begun(Suites!LibcxxNotAbove(version))
BY WordsJoin, Zenon DEF Words, Joins, Suites!LibcxxNotAbove

LEMMA SpeechNothing == Speech(<<>>)
BY DEF Speech, VerbsAsk, IsSeq

LEMMA SpeechLibraries ==
  ASSUME NEW libc \in Int, NEW libcxx \in Int, NEW cxxabi \in Int
  PROVE  Speech(Suites!libc_libcpp_suites(libc, libcxx, cxxabi))
<1> DEFINE a == IF libc = 0 THEN <<>> ELSE Suites!LibcNotAbove(libc)
           b == IF libcxx = 0 THEN <<>> ELSE Suites!LibcxxNotAbove(Suites!GLIBCXX(libcxx))
           c == IF cxxabi = 0 THEN <<>> ELSE Suites!LibcxxNotAbove(Suites!CXXABI(cxxabi))
<1>1. Suites!GLIBCXX(libcxx) \in Int /\ Suites!CXXABI(cxxabi) \in Int
  BY DEF Suites!GLIBCXX, Suites!CXXABI
<1>2. Speech(a)
  BY SpeechNothing, BegunLibc DEF Begun
<1>3. Speech(b)
  BY <1>1, SpeechNothing, BegunLibcxx DEF Begun
<1>4. Speech(c)
  BY <1>1, SpeechNothing, BegunLibcxx DEF Begun
<1> HIDE DEF a, b, c
<1>5. Speech(a \o b)
  BY <1>2, <1>3, SpeechJoined
<1>6. Speech(a \o b \o c)
  BY <1>4, <1>5, SpeechJoined
<1> QED
  BY <1>6 DEF a, b, c, Suites!libc_libcpp_suites

LEMMA BegunArm64 == Begun(Suites!arm64_suites)
BY WordsJoin, Zenon DEF Words, Joins, Suites!arm64_suites, Verbs

LEMMA BegunOwned ==
  ASSUME NEW uid, NEW gid, NEW globs PROVE Begun(Suites!OwnedBy(uid, gid, globs))
BY WordsJoin, Zenon DEF Words, Joins, Suites!OwnedBy, Verbs

LEMMA BegunDocker == Begun(Suites!docker_suites)
<1>1. Begun(Suites!Users)
  BY WordsJoin, Zenon DEF Words, Joins, Verbs, Suites!Users
<1>2. Begun(Suites!Owned)
  BY WordsJoin, BegunOwned, Zenon DEF Joins, Suites!Owned
<1> QED
  BY <1>1, <1>2, WordsJoin, Zenon DEF Words, Joins, Suites!docker_suites

\* Every target's suite is such a text.
LEMMA SpeechSuite ==
  ASSUME NEW t, NEW carried, NEW libcrypt, NEW libc \in Int, NEW libcxx \in Int, NEW cxxabi \in Int
  PROVE  Speech(Suites!Suite(t, carried, libcrypt, libc, libcxx, cxxabi).tests)
<1> DEFINE s == Suites!common_suites(libcrypt) \o Suites!libc_libcpp_suites(libc, libcxx, cxxabi)
<1>1. Speech(s)
  BY BegunCommon, SpeechLibraries, BegunJoined DEF Begun
<1> HIDE DEF s
<1> QED
  BY <1>1 DEF s, Suites!Suite

LEMMA SpeechAmd64 ==
  ASSUME NEW d \in Suites!Distributions PROVE Speech(Suites!amd64_target(d).tests)
<1> DEFINE row == CHOOSE r \in Suites!Table : r[1] = d
<1>1. \A r \in Suites!Table : r[4] \in Int /\ r[5] \in Int /\ r[6] \in Int
  BY DEF Suites!Table
<1>2. row \in Suites!Table
  BY DEF Suites!Distributions
<1>3. row[4] \in Int /\ row[5] \in Int /\ row[6] \in Int
  BY <1>1, <1>2
<1> HIDE DEF row
<1>4. Speech(Suites!Suite(Suites!amd64(d), row[2], row[3], row[4], row[5], row[6]).tests)
  BY <1>3, SpeechSuite
<1> QED
  BY <1>4 DEF row, Suites!amd64_target

LEMMA SpeechArm64 ==
  ASSUME NEW d \in Suites!Twinned PROVE Speech(Suites!arm64_target(d).tests)
<1> DEFINE s == Suites!amd64_target(d).tests
<1>1. d \in Suites!Distributions
  BY DEF Suites!Twinned
<1>2. Speech(s)
  BY <1>1, SpeechAmd64
<1>3. Suites!arm64_target(d).tests = s \o Suites!arm64_suites
  BY DEF Suites!arm64_target
<1> HIDE DEF s
<1>4. Speech(s \o Suites!arm64_suites)
  BY <1>2, BegunArm64, SpeechJoined DEF Begun
<1> QED
  BY <1>3, <1>4

LEMMA SpeechTargets ==
  ASSUME NEW t \in DOMAIN Targets PROVE Speech(Targets[t].tests)
<1> USE DEF Targets, Suites!targets
<1>1. CASE t = Suites!docker_image
  <2>1. Targets[t] = Suites!docker_target
    BY <1>1
  <2> QED
    BY <2>1, BegunDocker DEF Begun, Suites!docker_target
<1>2. ASSUME NEW d \in Suites!Distributions, t = Suites!amd64(d), t # Suites!docker_image
      PROVE  Speech(Targets[t].tests)
  <2>1. t[1] = d /\ t[2] = "amd64"
    BY <1>2 DEF Suites!amd64
  <2>2. Targets[t] = Suites!amd64_target(d)
    BY <1>2, <2>1
  <2> QED
    BY <2>2, SpeechAmd64
<1>3. ASSUME NEW d \in Suites!Twinned, t = Suites!arm64(d), t # Suites!docker_image
      PROVE  Speech(Targets[t].tests)
  <2>1. t[1] = d /\ t[2] # "amd64"
    BY <1>3 DEF Suites!arm64
  <2>2. Targets[t] = Suites!arm64_target(d)
    BY <1>3, <2>1
  <2> QED
    BY <2>2, SpeechArm64
<1> QED
  BY <1>1, <1>2, <1>3

-----------------------------------------------------------------------------
(* What the file infos hold: an attribute that is there has a value, and   *)
(* the versions required of a library are finitely many.                   *)

Required(w) ==
  /\ w.kind = "dict"
  /\ \A lib \in DOMAIN w.v : w.v[lib] \subseteq Int /\ IsFiniteSet(w.v[lib])
GoodAttrs(f) ==
  /\ \A a \in DOMAIN f : f[a].kind # "absent"
  /\ "version_requirement" \in DOMAIN f => Required(f["version_requirement"])
GoodFile(f) == GoodAttrs(f.attrs)

\* Before Present has left the absent ones out.
AlmostGood(f) == "version_requirement" \in DOMAIN f => Required(f["version_requirement"])

LEMMA TogetherKeeps ==
  ASSUME NEW f, NEW g, AlmostGood(f), AlmostGood(g)
  PROVE  AlmostGood(Together(f, g))
BY DEF AlmostGood, Together

LEMMA FileAttrsGood == ASSUME NEW e PROVE AlmostGood(FileAttrs(e))
BY DEF AlmostGood, FileAttrs

LEMMA ElfAttrsGood ==
  ASSUME NEW e, VersionsKnown(e.elf) PROVE AlmostGood(ElfAttrs(e))
<1> DEFINE b == e.elf
           r == IF b.isElf THEN b.requires ELSE <<>>
<1>1. \A lib \in DOMAIN r : r[lib] \subseteq Int /\ IsFiniteSet(r[lib])
  BY DEF VersionsKnown
<1>2. Required(Dict(r))
  BY <1>1 DEF Required, Dict
<1> HIDE DEF r
<1>3. AlmostGood(
     [arch                 |-> IF b.isElf THEN Scalar(b.arch) ELSE None,
      needed_libraries     |-> ListOf(IF b.isElf THEN b.needed ELSE {}),
      rpath                |-> IF b.isElf THEN b.rpath ELSE None,
      runpath              |-> IF b.isElf THEN b.runpath ELSE None,
      version_requirement  |-> Dict(r),
      get_exported_symbols |-> IF b.isElf THEN ListOf(b.exported) ELSE None,
      get_imported_symbols |-> IF b.isElf THEN ListOf(b.imported) ELSE None,
      exported_symbols     |-> IF b.isElf THEN WhenTruthy(ListOf(b.exported)) ELSE Absent,
      imported_symbols     |-> IF b.isElf THEN WhenTruthy(ListOf(b.imported)) ELSE Absent,
      functions            |-> IF b.isElf THEN WhenTruthy(ListOf(b.functions)) ELSE Absent])
  BY <1>2 DEF AlmostGood
<1> QED
  BY <1>3, FileAttrsGood, TogetherKeeps DEF ElfAttrs, r

LEMMA NginxAttrsGood ==
  ASSUME NEW e, VersionsKnown(e.elf) PROVE AlmostGood(NginxAttrs(e))
<1>1. AlmostGood(
       [nginx_modules             |-> ListOf(e.elf.modules),
        nginx_compiled_openssl    |-> e.elf.openssl,
        nginx_compile_flags       |-> e.elf.flags,
        has_dwarf_info            |-> Scalar(e.elf.dwarf # {}),
        has_ngx_http_request_t_DW |-> Scalar("ngx_http_request_t" \in e.elf.dwarf)])
  BY DEF AlmostGood
<1> QED
  BY <1>1, ElfAttrsGood, TogetherKeeps DEF NginxAttrs

LEMMA PresentGood == ASSUME NEW f, AlmostGood(f) PROVE GoodAttrs(Present(f))
BY DEF AlmostGood, GoodAttrs, Present, RestrictValues, Restrict

LEMMA AttributesGood ==
  ASSUME NEW e, VersionsKnown(e.elf) PROVE GoodAttrs(Attributes(e))
<1>1. CASE Class(e) = "NginxInfo"
  <2>1. Attributes(e) = Present(NginxAttrs(e))
    BY <1>1 DEF Attributes
  <2> QED
    BY <2>1, NginxAttrsGood, PresentGood
<1>2. CASE Class(e) = "ElfFileInfo"
  <2>1. Attributes(e) = Present(ElfAttrs(e))
    BY <1>2 DEF Attributes
  <2> QED
    BY <2>1, ElfAttrsGood, PresentGood
<1>3. CASE Class(e) = "FileInfo"
  <2>1. Attributes(e) = Present(FileAttrs(e))
    BY <1>3 DEF Attributes
  <2> QED
    BY <2>1, FileAttrsGood, PresentGood
<1> QED
  BY <1>1, <1>2, <1>3 DEF Class

LEMMA InfoGood ==
  ASSUME NEW e, VersionsKnown(e.elf) PROVE GoodFile(FileInfo(e))
<1> DEFINE f == Attributes(e)
           s == Scalar(ExpectedRpath[e.at])
<1>1. GoodAttrs(f)
  BY AttributesGood
<1> HIDE DEF f
<1>2. s.kind # "absent"
  BY DEF Scalar
<1> HIDE DEF s
<1>3. GoodAttrs([f EXCEPT !["rpath"] = s]) /\ GoodAttrs([f EXCEPT !["runpath"] = s])
  BY <1>1, <1>2 DEF GoodAttrs
<1>4. transform(e.at, f) \in {f, [f EXCEPT !["rpath"] = s], [f EXCEPT !["runpath"] = s]}
  BY DEF transform, s
<1>5. GoodAttrs(transform(e.at, f))
  BY <1>1, <1>3, <1>4
<1> QED
  BY <1>5 DEF GoodFile, FileInfo, f

-----------------------------------------------------------------------------
(* A verb judges a value as its English meaning does.                      *)

Judged(verb, w, x) ==
  /\ Judge(verb, w, x) \in {"yes", "no", "raises"}
  /\ Judge(verb, w, x) = "yes" => Means(verb, w, x)
  /\ Judge(verb, w, x) = "no" => ~Means(verb, w, x)
  /\ Means(verb, w, x) \in BOOLEAN

LEMMA MeansType ==
  ASSUME NEW verb \in Verbs \cup Comparisons, NEW w, NEW x PROVE Means(verb, w, x) \in BOOLEAN
<1>1. CASE verb = "equal"
  BY <1>1, Zenon DEF Means
<1>2. CASE verb = "match"
  <2>1. Means(verb, w, x) = (x \in w.v)
    BY <1>2, Zenon DEF Means
  <2>2. (x \in w.v) = TRUE \/ (x \in w.v) = FALSE
    OBVIOUS
  <2> QED
    BY <2>1, <2>2
<1>3. CASE verb = "contain"
  BY <1>3, Zenon DEF Means
<1>4. CASE verb = "contain_match"
  BY <1>4, Zenon DEF Means
<1>5. CASE verb = "less_than"
  BY <1>5, Zenon DEF Means
<1>6. CASE verb = "greater_than"
  BY <1>6, Zenon DEF Means
<1> QED
  BY <1>1, <1>2, <1>3, <1>4, <1>5, <1>6 DEF Verbs, Comparisons

LEMMA JudgedVerbs == ASSUME NEW verb \in Verbs, NEW w, NEW x PROVE Judged(verb, w, x)
<1>0. Means(verb, w, x) \in BOOLEAN
  BY MeansType
<1>1. CASE w.kind = "raises"
  BY <1>0, <1>1 DEF Judged, Judge
<1>2. CASE w.kind # "raises" /\ verb = "equal"
  <2>1. Judge(verb, w, x) = _equal(w, x)
    BY <1>2 DEF Judge
  <2>2. Means(verb, w, x) <=> w.kind = "scalar" /\ w.v = x
    BY <1>2 DEF Means
  <2> QED
    BY <1>0, <2>1, <2>2 DEF Judged, _equal, YesNo
<1>3. CASE w.kind # "raises" /\ verb = "match"
  <2>1. Judge(verb, w, x) = _match(w, x)
    BY <1>3 DEF Judge
  <2>2. Means(verb, w, x) <=> x \in w.v
    BY <1>3 DEF Means
  <2> QED
    BY <1>0, <2>1, <2>2 DEF Judged, _match, YesNo
<1>4. CASE w.kind # "raises" /\ verb = "contain"
  <2>1. Judge(verb, w, x) = _contain(w, x)
    BY <1>4 DEF Judge
  <2>2. Means(verb, w, x) <=> w.kind = "list" /\ x \in w.v
    BY <1>4 DEF Means
  <2> QED
    BY <1>0, <2>1, <2>2 DEF Judged, _contain, YesNo
<1>5. CASE w.kind # "raises" /\ verb = "contain_match"
  <2>1. Judge(verb, w, x) = _contain_match(w, x)
    BY <1>5 DEF Judge
  <2>2. Means(verb, w, x) <=> w.kind = "list" /\ \E e \in w.v : e \in x
    BY <1>5 DEF Means
  <2> QED
    BY <1>0, <2>1, <2>2 DEF Judged, _contain_match, YesNo
<1> QED
  BY <1>1, <1>2, <1>3, <1>4, <1>5 DEF Verbs

LEMMA JudgedComparisons ==
  ASSUME NEW verb \in Comparisons, NEW w, NEW x \in Int,
         w.kind = "list", w.v \subseteq Int, IsFiniteSet(w.v)
  PROVE  Judged(verb, w, x)
<1>0. Means(verb, w, x) \in BOOLEAN
  BY MeansType
<1>1. CASE w.v = {}
  <2>1. Judge(verb, w, x) = "raises"
    BY <1>1 DEF Judge, Comparisons, _less_than, _greater_than
  <2> QED
    BY <1>0, <2>1 DEF Judged
<1> DEFINE S == w.v
           hi == Max(S)
           lo == Min(S)
<1>2. ASSUME S # {} PROVE /\ hi \in Int /\ hi \in S /\ \A v \in S : v <= hi
                          /\ lo \in Int /\ lo \in S /\ \A v \in S : lo <= v
  BY <1>2, Extremes
<1>3. CASE S # {} /\ verb = "less_than"
  <2>1. Judge(verb, w, x) = YesNo(hi < x)
    BY <1>3 DEF Judge, _less_than
  <2>2. Means(verb, w, x) <=> \A v \in S : v < x
    BY <1>3 DEF Means
  <2> HIDE DEF S, hi
  <2>3. hi < x <=> \A v \in S : v < x
    BY <1>2, <1>3 DEF S
  <2> QED
    BY <1>0, <2>1, <2>2, <2>3 DEF Judged, YesNo
<1>4. CASE S # {} /\ verb = "greater_than"
  <2>1. Judge(verb, w, x) = YesNo(lo > x)
    BY <1>4 DEF Judge, _greater_than
  <2>2. Means(verb, w, x) <=> \A v \in S : v > x
    BY <1>4 DEF Means
  <2> HIDE DEF S, lo
  <2>3. lo > x <=> \A v \in S : v > x
    BY <1>2, <1>4 DEF S
  <2> QED
    BY <1>0, <2>1, <2>2, <2>3 DEF Judged, YesNo
<1> QED
  BY <1>1, <1>3, <1>4 DEF Comparisons

\* The chain stands where the sentence s is about to be judged.
Poised(s) ==
  /\ logical_reverse \in BOOLEAN /\ s.negated = logical_reverse
  /\ \/ s.keys = {} /\ key_name = "none"
     \/ s.keys = {key_name} /\ key_name # "none"
  /\ \/ s.verb \in Verbs
     \/ /\ s.verb \in Comparisons /\ s.x \in Int
        /\ s.topic = "version_requirement" /\ s.keys # {}

\* What _compare finds in one file is what the sentence says of it.
LEMMA OutcomeIs ==
  ASSUME NEW s, NEW f, Poised(s), GoodFile(f), s.topic \in DOMAIN f.attrs
  PROVE  LET o == Outcome(f, s.topic, s.verb, s.x) IN
         /\ o \in {"accepted", "raises", "fails", "goes on"}
         /\ o = "accepted" <=> About(s, f) = Absent
         /\ o = "goes on" => TrueOf(s, f)
         /\ o = "fails" => ~TrueOf(s, f)
<1> DEFINE o == Outcome(f, s.topic, s.verb, s.x)
           w == f.attrs[s.topic]
           l == Looked(w)
           j == Judge(s.verb, l, s.x)
<1>1. w.kind # "absent"
  BY DEF GoodFile, GoodAttrs
<1>2. CASE KeyMissing(w)
  <2>1. o = "accepted"
    BY <1>2 DEF Outcome
  <2>2. w.kind = "dict" /\ s.keys = {key_name} /\ key_name \notin DOMAIN w.v
    BY <1>2 DEF KeyMissing, Poised
  <2>3. About(s, f) = Absent
    BY <2>2 DEF About, Under
  <2> QED
    BY <2>1, <2>3
<1>3. CASE ~KeyMissing(w)
  <2>1. About(s, f) = l
    <3>1. CASE w.kind # "dict" \/ s.keys = {}
      BY <3>1 DEF About, Under, Looked, Poised
    <3>2. CASE w.kind = "dict" /\ s.keys # {}
      <4>1. s.keys = {key_name} /\ key_name # "none" /\ key_name \in DOMAIN w.v
        BY <1>3, <3>2 DEF KeyMissing, Poised
      <4>2. (CHOOSE k \in s.keys : TRUE) = key_name
        BY <4>1
      <4> QED
        BY <3>2, <4>1, <4>2 DEF About, Under, Looked
    <3> QED
      BY <3>1, <3>2
  <2>2. l.kind # "absent"
    BY <1>1 DEF Looked, ListOf
  <2>3. About(s, f) # Absent
    BY <2>1, <2>2 DEF Absent
  <2>4. Judged(s.verb, l, s.x)
    <3>1. CASE s.verb \in Verbs
      BY <3>1, JudgedVerbs
    <3>2. CASE s.verb \notin Verbs
      <4>1. /\ s.verb \in Comparisons /\ s.x \in Int
            /\ s.topic = "version_requirement" /\ s.keys # {}
        BY <3>2 DEF Poised
      <4>2. Required(w)
        BY <4>1 DEF GoodFile, GoodAttrs
      <4>3. key_name # "none" /\ key_name \in DOMAIN w.v
        BY <1>3, <4>1, <4>2 DEF KeyMissing, Poised, Required
      <4>4. l = ListOf(w.v[key_name])
        BY <4>2, <4>3 DEF Looked, Required
      <4>5. l.kind = "list" /\ l.v \subseteq Int /\ IsFiniteSet(l.v)
        BY <4>2, <4>3, <4>4 DEF Required, ListOf
      <4> HIDE DEF l
      <4> QED
        BY <4>1, <4>5, JudgedComparisons
    <3> QED
      BY <3>1, <3>2
  <2>5. o = IF j = "raises" THEN "raises"
            ELSE IF (j = "yes") = logical_reverse THEN "fails" ELSE "goes on"
    BY <1>3 DEF Outcome
  <2>6. TrueOf(s, f) <=> ~(Means(s.verb, l, s.x) <=> logical_reverse)
    <3>1. TrueOf(s, f) <=> Means(s.verb, l, s.x) # logical_reverse
      BY <2>1, Zenon DEF TrueOf, Poised
    <3>2. Means(s.verb, l, s.x) \in BOOLEAN /\ logical_reverse \in BOOLEAN
      BY <2>4 DEF Judged, Poised
    <3> HIDE DEF l
    <3> QED
      BY <3>1, <3>2, Zenon
  <2> HIDE DEF o, j, l
  <2>7. j \in {"yes", "no", "raises"}
        /\ (j = "yes" => Means(s.verb, l, s.x)) /\ (j = "no" => ~Means(s.verb, l, s.x))
    BY <2>4 DEF Judged, j
  <2>8. o \in {"raises", "fails", "goes on"}
    BY <2>5
  <2>9. o = "goes on" => TrueOf(s, f)
    BY <2>5, <2>6, <2>7 DEF Poised
  <2>10. o = "fails" => ~TrueOf(s, f)
    BY <2>5, <2>6, <2>7 DEF Poised
  <2> QED
    BY <2>3, <2>8, <2>9, <2>10 DEF o
<1> QED
  BY <1>2, <1>3

-----------------------------------------------------------------------------
(* What the chain remembers is what the suite has said.                    *)

LastExpect(i) == LastWord(Tests, {"expect"}, i)
LastNamed(i)  == LastWord(Tests, {"expect", "attribute"}, i)

Remembered ==
  /\ LastExpect(call) # 0 => files = Listed(infos, Tests[LastExpect(call)].x)
  /\ LastNamed(call) # 0 =>
       (logical_reverse <=> Behind(Tests, LastNamed(call), "not", call) # {})
  /\ LastNamed(call) # 0 /\ Tests[LastNamed(call)].op = "attribute" =>
       LET keys == Behind(Tests, LastNamed(call), "key", call) IN
       /\ last_attribute = Named(Tests[LastNamed(call)].x, current_suite.use_rpath)
       /\ keys = {} => key_name = "none"
       /\ keys # {} => \E k \in keys : key_name = Tests[k].x

Suited == args.suite \in DOMAIN Targets /\ current_suite = Targets[args.suite]

ChainInv == stage = "run" => Suited /\ ~raised /\ call <= Len(Tests) + 1 /\ Remembered

\* What was said before is true, or was reported, or has ended the program.
SaidInv ==
  all_failures = {} /\ ~raised /\ current_suite # None =>
    /\ current_suite.manifest = <<>> \/ manifest = fixture(args.suite)
    /\ \A i \in Calls("exists") : i < call => Subjects(i) # <<>>
    /\ \A i \in Calls("verb") : i < call => Holds(Sentence(i), Subjects(i))

NoneYet == {"arguments", "gather", "explain", "suite"}
BeginInv == stage \in NoneYet => all_failures = {} /\ current_suite = None /\ ~raised /\ call = 1

EndInv ==
  stage \in {"output", "atexit", "cleanup", "done"} /\ ~raised /\ args.suite # NoSuite =>
    Suited /\ call > Len(Tests)

InfosInv == IsSeq(infos) /\ \A n \in 1..Len(infos) : GoodFile(infos[n])

LEMMA BehindNext ==
  ASSUME NEW s, NEW op, NEW i \in Nat \ {0}, NEW start \in 0..(i - 1)
  PROVE  Behind(s, start, op, i + 1) = Behind(s, start, op, i) \cup
                                       (IF s[i].op = op THEN {i} ELSE {})
<1>1. (start + 1)..((i + 1) - 1) = ((start + 1)..(i - 1)) \cup {i}
  OBVIOUS
<1> QED
  BY <1>1 DEF Behind

LEMMA BehindNone ==
  ASSUME NEW s, NEW op, NEW i \in Nat PROVE Behind(s, i, op, i + 1) = {}
BY DEF Behind

LEMMA ResolvedIsNamed ==
  ASSUME NEW name, NEW use_rpath PROVE Resolved(name, use_rpath) = Named(name, use_rpath)
BY DEF Resolved, Named

\* The word that is next, said.
Says == \/ word.op = "expect" /\ Expect(infos, word.x)
        \/ word.op = "attribute" /\ Attribute(word.x)
        \/ word.op = "not" /\ do_not
        \/ word.op = "key" /\ key(word.x)
        \/ word.op = "exists" /\ _exist(call)
        \/ word.op = "verb" /\ Verb(word.verb, word.x, call)

LEMMA RememberedNext ==
  ASSUME call \in Nat \ {0}, Remembered, Says, call' = call + 1, infos' = infos
  PROVE  Remembered'
<1> DEFINE e == LastExpect(call)
           a == LastNamed(call)
           nots(n, i) == Behind(Tests, n, "not", i)
           keys(n, i) == Behind(Tests, n, "key", i)
<1>1. current_suite' = current_suite
  BY DEF Says, Expect, Attribute, do_not, key, _exist, Verb
<1>2. /\ e \in 0..(call - 1) /\ a \in 0..(call - 1)
      /\ LastExpect(call)' = IF word.op = "expect" THEN call ELSE e
      /\ LastNamed(call)' = IF word.op \in {"expect", "attribute"} THEN call ELSE a
  BY <1>1, LastWordIs, LastWordNext DEF LastExpect, LastNamed, Tests, word
<1>3. Remembered' <=>
        /\ LastExpect(call)' # 0 => files' = Listed(infos, Tests[LastExpect(call)'].x)
        /\ LastNamed(call)' # 0 => (logical_reverse' <=> nots(LastNamed(call)', call + 1) # {})
        /\ LastNamed(call)' # 0 /\ Tests[LastNamed(call)'].op = "attribute" =>
             /\ last_attribute' = Named(Tests[LastNamed(call)'].x, current_suite.use_rpath)
             /\ keys(LastNamed(call)', call + 1) = {} => key_name' = "none"
             /\ keys(LastNamed(call)', call + 1) # {} =>
                  \E k \in keys(LastNamed(call)', call + 1) : key_name' = Tests[k].x
  BY <1>1 DEF Remembered, Tests
<1>4. /\ nots(call, call + 1) = {} /\ keys(call, call + 1) = {}
      /\ nots(a, call + 1) = nots(a, call) \cup (IF word.op = "not" THEN {call} ELSE {})
      /\ keys(a, call + 1) = keys(a, call) \cup (IF word.op = "key" THEN {call} ELSE {})
  BY <1>2, BehindNone, BehindNext DEF word, Tests
<1>5. /\ e # 0 => files = Listed(infos, Tests[e].x)
      /\ a # 0 => (logical_reverse <=> nots(a, call) # {})
      /\ a # 0 /\ Tests[a].op = "attribute" =>
           /\ last_attribute = Named(Tests[a].x, current_suite.use_rpath)
           /\ keys(a, call) = {} => key_name = "none"
           /\ keys(a, call) # {} => \E k \in keys(a, call) : key_name = Tests[k].x
  BY DEF Remembered
<1>6. word = Tests[call]
  BY DEF word, Tests
<1> HIDE DEF e, a, nots, keys
<1>7. CASE word.op = "expect" /\ Expect(infos, word.x)
  BY <1>2, <1>3, <1>4, <1>6, <1>7 DEF Expect, _reset
<1>8. CASE word.op = "attribute" /\ Attribute(word.x)
  BY <1>2, <1>3, <1>4, <1>5, <1>6, <1>8, ResolvedIsNamed DEF Attribute
<1>9. CASE word.op = "not" /\ do_not
  BY <1>2, <1>3, <1>4, <1>5, <1>9 DEF do_not
<1>10. CASE word.op = "key" /\ key(word.x)
  BY <1>2, <1>3, <1>4, <1>5, <1>6, <1>10 DEF key
<1>11. CASE word.op = "exists" /\ _exist(call)
  BY <1>2, <1>3, <1>4, <1>5, <1>11 DEF _exist
<1>12. CASE word.op = "verb" /\ Verb(word.verb, word.x, call)
  BY <1>2, <1>3, <1>4, <1>5, <1>12 DEF Verb
<1> QED
  BY <1>7, <1>8, <1>9, <1>10, <1>11, <1>12 DEF Says

\* A verb is judged of the files and the attribute that its sentence names.
LEMMA SentencePoised ==
  ASSUME Suited, Remembered, logical_reverse \in BOOLEAN,
         call \in 1..Len(Tests), word.op = "verb"
  PROVE  /\ files = Subjects(call)
         /\ last_attribute = Sentence(call).topic /\ last_attribute # "none"
         /\ word.verb = Sentence(call).verb /\ word.x = Sentence(call).x
         /\ Poised(Sentence(call))
<1> DEFINE t == Tests
<1>1. Speech(t)
  BY SpeechTargets DEF Suited, Tests
<1>2. word = t[call]
  BY DEF word, Tests
<1> HIDE DEF t
<1>3. Len(t) \in Nat /\ call \in 1..Len(t) /\ t # <<>> /\ t[1].op = "expect"
  <2>1. IsSeq(t)
    BY <1>1 DEF Speech
  <2>2. Len(t) \in Nat /\ (t = <<>> <=> Len(t) = 0)
    BY <2>1, Joined
  <2> QED
    BY <1>1, <2>2 DEF Speech, t
<1>4. PICK a \in 1..(call - 1) : Asks(t, call, a)
  BY <1>1, <1>2, <1>3 DEF Speech, VerbsAsk
<1>5. LastNamed(call) = a
  <2> DEFINE l == LastWord(t, {"expect", "attribute"}, call)
  <2>1. /\ l \in 0..(call - 1) /\ (l # 0 => t[l].op \in {"expect", "attribute"})
        /\ \A j \in 1..(call - 1) : t[j].op \in {"expect", "attribute"} => j <= l
    BY <1>3, LastWordIs
  <2> HIDE DEF l
  <2>2. a <= l
    BY <1>4, <2>1 DEF Asks
  <2>3. ~(l > a)
    BY <1>3, <1>4, <2>1 DEF Asks
  <2>4. l = a
    BY <1>3, <1>4, <2>1, <2>2, <2>3
  <2> QED
    BY <2>4 DEF LastNamed, l, t
<1>6. LastExpect(call) # 0
  <2> DEFINE l == LastWord(t, {"expect"}, call)
  <2>1. \A j \in 1..(call - 1) : t[j].op \in {"expect"} => j <= l
    BY <1>3, LastWordIs
  <2>2. l \in 0..(call - 1)
    BY <1>3, LastWordIs
  <2> HIDE DEF l
  <2>3. 1 \in 1..(call - 1)
    BY <1>3, <1>4
  <2>4. l # 0
    BY <1>3, <2>1, <2>2, <2>3
  <2> QED
    BY <2>4 DEF LastExpect, l, t
<1>7. files = Subjects(call)
  BY <1>6 DEF Remembered, LastExpect, Subjects
<1> DEFINE keys == Behind(t, a, "key", call)
           s == Sentence(call)
<1>8. /\ s.topic = Named(t[a].x, current_suite.use_rpath)
      /\ s.negated = (Behind(t, a, "not", call) # {})
      /\ s.keys = {t[j].x : j \in keys}
      /\ s.verb = t[call].verb /\ s.x = t[call].x
  BY <1>5 DEF Sentence, Reading, LastNamed, t
<1>9. /\ logical_reverse <=> Behind(t, a, "not", call) # {}
      /\ last_attribute = Named(t[a].x, current_suite.use_rpath)
      /\ keys = {} => key_name = "none"
      /\ keys # {} => \E k \in keys : key_name = t[k].x
  BY <1>4, <1>5 DEF Remembered, Asks, t
<1>10. s.topic = last_attribute
  BY <1>8, <1>9
<1>11. last_attribute # "none"
  BY <1>4, <1>9 DEF Asks, Named
<1>12. s.negated = logical_reverse
  <2>1. s.negated = (Behind(t, a, "not", call) # {})
    BY <1>8
  <2>2. logical_reverse = (Behind(t, a, "not", call) # {})
    BY <1>9
  <2> QED
    BY <2>1, <2>2
<1>13. \/ s.keys = {} /\ key_name = "none"
       \/ s.keys = {key_name} /\ key_name # "none"
  <2>1. \A j \in keys : j \in (a + 1)..(call - 1) /\ t[j].op = "key"
    BY DEF Behind
  <2>2. CASE keys = {}
    BY <1>8, <1>9, <2>2
  <2>3. CASE keys # {}
    <3>1. PICK k \in keys : key_name = t[k].x
      BY <1>9, <2>3
    <3>2. \A j \in keys : j = k
      BY <1>4, <2>1 DEF Asks
    <3>3. key_name # "none"
      BY <1>4, <2>1, <3>1 DEF Asks
    <3>4. s.keys = {t[k].x}
      BY <1>8, <3>2
    <3> QED
      BY <3>1, <3>3, <3>4
  <2> QED
    BY <2>2, <2>3
<1>14. \/ s.verb \in Verbs
       \/ /\ s.verb \in Comparisons /\ s.x \in Int
          /\ s.topic = "version_requirement" /\ s.keys # {}
  <2>1. CASE t[call].verb \in Verbs
    BY <1>8, <2>1
  <2>2. CASE t[call].verb \notin Verbs
    <3>1. /\ t[call].verb \in Comparisons /\ t[call].x \in Int
          /\ t[a].x = "version_requirement"
          /\ \E j \in (a + 1)..(call - 1) : t[j].op = "key"
      BY <1>4, <2>2 DEF Asks
    <3>2. s.topic = "version_requirement"
      BY <1>8, <3>1 DEF Named
    <3>3. keys # {}
      BY <3>1 DEF Behind
    <3> HIDE DEF keys
    <3>4. s.keys # {}
      BY <1>8, <3>3
    <3> QED
      BY <1>8, <3>1, <3>2, <3>4
  <2> QED
    BY <2>1, <2>2
<1> HIDE DEF s
<1>15. Poised(s)
  BY <1>12, <1>13, <1>14 DEF Poised
<1> QED
  BY <1>2, <1>7, <1>8, <1>10, <1>11, <1>15 DEF s

\* exists() is judged of the files of its glob, and is never negated.
LEMMA ExistsPoised ==
  ASSUME Suited, Remembered, call \in 1..Len(Tests), word.op = "exists"
  PROVE  files = Subjects(call) /\ ~logical_reverse
<1> DEFINE t == Tests
<1>1. Speech(t)
  BY SpeechTargets DEF Suited, Tests
<1>2. word = t[call] /\ call \in 1..Len(t)
  BY DEF word, Tests
<1> HIDE DEF t
<1>3. Len(t) \in Nat
  BY <1>1, Joined DEF Speech
<1>4. PICK e \in 1..(call - 1) : AsksFor(t, call, e)
  BY <1>1, <1>2 DEF Speech
<1> DEFINE l == LastWord(t, {"expect"}, call)
           n == LastWord(t, {"expect", "attribute"}, call)
<1>5. /\ l \in 0..(call - 1)
      /\ \A j \in 1..(call - 1) : t[j].op \in {"expect"} => j <= l
  BY <1>2, <1>3, LastWordIs
<1>6. /\ n \in 0..(call - 1) /\ (n # 0 => t[n].op \in {"expect", "attribute"})
      /\ \A j \in 1..(call - 1) : t[j].op \in {"expect", "attribute"} => j <= n
  BY <1>2, <1>3, LastWordIs
<1> HIDE DEF l, n
<1>7. l # 0
  BY <1>4, <1>5 DEF AsksFor
<1>8. n = e
  <2>1. e <= n
    BY <1>4, <1>6 DEF AsksFor
  <2>2. ~(n > e)
    BY <1>2, <1>3, <1>4, <1>6 DEF AsksFor
  <2> QED
    BY <1>2, <1>3, <1>4, <1>6, <2>1, <2>2
<1>9. Behind(t, n, "not", call) = {}
  BY <1>4, <1>8 DEF AsksFor, Behind
<1>10. LastExpect(call) = l /\ LastNamed(call) = n
  BY DEF LastExpect, LastNamed, l, n, t
<1>11. files = Subjects(call)
  BY <1>7, <1>10 DEF Remembered, LastExpect, Subjects
<1>12. ~logical_reverse
  BY <1>4, <1>8, <1>9, <1>10 DEF Remembered, t
<1> QED
  BY <1>11, <1>12

\* The walk of _compare: it passes only if the sentence holds, and reports
\* only a file of which the sentence is false.
LEMMA CompareSays ==
  ASSUME NEW s, NEW c, Poised(s), Len(files) \in Nat,
         \A n \in 1..Len(files) : GoodFile(files[n]) /\ s.topic \in DOMAIN files[n].attrs,
         _compare(s.topic, s.verb, s.x, c)
  PROVE  /\ ~raised' /\ all_failures' = {} =>
              \A n \in 1..Len(files) : Unread(s, files, n) \/ TrueOf(s, files[n])
         /\ \A r \in all_failures' :
              r \in all_failures \/ (r.call = c /\ FalseOf(s, files, r.at))
<1> DEFINE o(n)  == Outcome(files[n], s.topic, s.verb, s.x)
           stops == {i \in 1..Len(files) : o(i) # "goes on"}
           first == Min(stops)
           out   == IF stops = {} THEN "accepted" ELSE o(first)
           r     == [call |-> c, at |-> files[first].at]
<1>1. /\ raised' = (out = "raises")
      /\ all_failures' = IF out = "fails" THEN all_failures \cup {r} ELSE all_failures
  BY DEF _compare
<1>2. ASSUME NEW n \in 1..Len(files)
      PROVE  /\ o(n) \in {"accepted", "raises", "fails", "goes on"}
             /\ o(n) = "accepted" <=> About(s, files[n]) = Absent
             /\ o(n) = "goes on" => TrueOf(s, files[n])
             /\ o(n) = "fails" => ~TrueOf(s, files[n])
  BY OutcomeIs
<1>3. stops # {} => /\ first \in stops /\ first \in 1..Len(files)
                    /\ \A n \in 1..Len(files) : n < first => o(n) = "goes on"
  <2>1. stops \in SUBSET (1..Len(files)) /\ stops \in SUBSET Int
    <3> HIDE DEF o
    <3>1. stops \in SUBSET (1..Len(files))
      OBVIOUS
    <3>2. 1..Len(files) \in SUBSET Int
      OBVIOUS
    <3> HIDE DEF stops
    <3> QED
      BY <3>1, <3>2
  <2>2. IsFiniteSet(stops)
    <3>1. IsFiniteSet(1..Len(files))
      BY FS_Interval
    <3> HIDE DEF stops
    <3> QED
      BY <2>1, <3>1, FS_Subset
  <2>3. ASSUME stops # {} PROVE first \in stops /\ \A y \in stops : first <= y
    <3> HIDE DEF stops
    <3> QED
      BY <2>1, <2>2, <2>3, Extremes
  <2> HIDE DEF first
  <2>4. ASSUME stops # {}, NEW n \in 1..Len(files), n < first PROVE o(n) = "goes on"
    <3>1. first \in Int /\ n \in Int
      <4>1. first \in stops
        BY <2>3, <2>4
      <4> HIDE DEF stops
      <4>2. n \in Int
        OBVIOUS
      <4>3. first \in Int
        BY <2>1, <4>1
      <4> QED
        BY <4>2, <4>3
    <3>2. n \in stops => first <= n
      <4>1. \A y \in stops : first <= y
        BY <2>3, <2>4
      <4> HIDE DEF stops
      <4> QED
        BY <4>1
    <3>3. n \notin stops
      <4> HIDE DEF stops
      <4> QED
        BY <2>4, <3>1, <3>2
    <3> QED
      BY <3>3
  <2> QED
    BY <2>1, <2>3, <2>4
<1> HIDE DEF o, first
<1>4. ASSUME ~raised', all_failures' = {}, NEW n \in 1..Len(files)
      PROVE  Unread(s, files, n) \/ TrueOf(s, files[n])
  <2>1. CASE stops = {}
    BY <1>2, <2>1
  <2>2. CASE stops # {}
    <3>1. out = o(first) /\ first \in 1..Len(files) /\ o(first) # "goes on"
      BY <1>3, <2>2
    <3>2. out # "raises" /\ out # "fails"
      BY <1>1, <1>4
    <3>3. About(s, files[first]) = Absent
      BY <1>2, <3>1, <3>2
    <3>4. CASE n < first
      BY <1>2, <1>3, <2>2, <3>4
    <3>5. CASE ~(n < first)
      <4>1. first \in 1..Len(files)
        BY <3>1
      <4>2. first \in 1..n
        BY <3>5, <4>1
      <4> QED
        BY <3>3, <4>2 DEF Unread
    <3> QED
      BY <3>4, <3>5
  <2> QED
    BY <2>1, <2>2
<1>5. ASSUME NEW q \in all_failures', q \notin all_failures
      PROVE  q.call = c /\ FalseOf(s, files, q.at)
  <2>1. out = "fails" /\ q = r
    BY <1>1, <1>5
  <2>2. stops # {} /\ o(first) = "fails"
    BY <2>1
  <2>3. first \in 1..Len(files) /\ ~TrueOf(s, files[first])
    BY <1>2, <1>3, <2>2
  <2>4. ~Unread(s, files, first)
    <3> SUFFICES ASSUME NEW m \in 1..first PROVE About(s, files[m]) # Absent
      BY DEF Unread
    <3>1. m \in 1..Len(files)
      BY <2>3
    <3>2. o(m) # "accepted"
      <4>1. CASE m < first
        BY <1>3, <2>2, <3>1, <4>1
      <4>2. CASE ~(m < first)
        <5>1. m = first
          BY <2>3, <4>2
        <5> QED
          BY <2>2, <5>1
      <4> QED
        BY <4>1, <4>2
    <3> QED
      BY <1>2, <3>1, <3>2
  <2>5. q.call = c /\ q.at = files[first].at
    BY <2>1
  <2> QED
    BY <2>3, <2>4, <2>5 DEF FalseOf
<1> QED
  BY <1>4, <1>5

LEMMA VerbSays ==
  ASSUME NEW s, NEW c, Poised(s), s.topic = last_attribute, last_attribute # "none",
         Len(files) \in Nat, \A n \in 1..Len(files) : GoodFile(files[n]),
         Verb(s.verb, s.x, c)
  PROVE  /\ ~raised' /\ all_failures' = {} => Holds(s, files)
         /\ \A r \in all_failures' :
              r \in all_failures \/ (r.call = c /\ FalseOf(s, files, r.at))
<1>1. CASE LookRaises /\ raised' = TRUE /\ UNCHANGED all_failures
  BY <1>1
<1>2. CASE ~LookRaises /\ Dummy /\ UNCHANGED <<all_failures, raised>>
  <2>1. Waived(s, files)
    BY <1>2 DEF Dummy, Waived
  <2> QED
    BY <1>2, <2>1 DEF Holds
<1>3. CASE ~LookRaises /\ ~Dummy /\ _compare(last_attribute, s.verb, s.x, c)
  <2>1. \A n \in 1..Len(files) : GoodFile(files[n]) /\ s.topic \in DOMAIN files[n].attrs
    BY <1>3 DEF Dummy
  <2>2. _compare(s.topic, s.verb, s.x, c)
    BY <1>3
  <2> QED
    BY <2>1, <2>2, CompareSays DEF Holds
<1> QED
  BY <1>1, <1>2, <1>3 DEF Verb

-----------------------------------------------------------------------------
(* The invariant: the chain remembers what was said, and what was said is  *)
(* true or reported.                                                       *)

Real(r) ==
  \/ r.call = 0 /\ manifest # fixture(args.suite)
  \/ r.call \in Calls("exists") /\ Subjects(r.call) = <<>>
  \/ r.call \in Calls("verb") /\ FalseOf(Sentence(r.call), Subjects(r.call), r.at)

CheckInv == /\ ChainInv /\ SaidInv /\ BeginInv /\ EndInv /\ InfosInv
            /\ \A r \in all_failures : Real(r)

\* What a sentence says changes only with the suite and the files.
Scene == <<current_suite, infos, manifest, args>>

LEMMA SceneStays ==
  ASSUME UNCHANGED Scene
  PROVE  /\ Tests' = Tests /\ \A op : Calls(op)' = Calls(op)
         /\ \A i : Subjects(i)' = Subjects(i)
         /\ \A i : Sentence(i)' = Sentence(i)
BY DEF Scene, Tests, Calls, Subjects, Sentence, Reading

LEMMA RealStays ==
  ASSUME UNCHANGED Scene, NEW r, Real(r) PROVE Real(r)'
BY SceneStays DEF Real, Scene

LEMMA SaidStays ==
  ASSUME UNCHANGED Scene, UNCHANGED <<call, all_failures>>, raised => raised', SaidInv
  PROVE  SaidInv'
<1> SUFFICES ASSUME all_failures' = {}, ~raised', current_suite' # None
             PROVE  /\ current_suite'.manifest = <<>> \/ manifest' = fixture(args'.suite)
                    /\ \A i \in Calls("exists")' : i < call' => Subjects(i)' # <<>>
                    /\ \A i \in Calls("verb")' :
                         i < call' => Holds(Sentence(i)', Subjects(i)')
  BY DEF SaidInv
<1> QED
  BY SceneStays DEF SaidInv, Scene

LEMMA WalkedGood == ASSUME TypeOK PROVE IsSeq(walked) /\ \A n \in 1..Len(walked) : GoodFile(walked[n])
<1> DEFINE p == Packages[package]
           W == {FileInfo(p[i]) : i \in 1..Len(p)}
<1>1. p \in Seq(Range(p)) /\ \A i \in 1..Len(p) : VersionsKnown(p[i].elf)
  BY PackagesAssumption DEF TypeOK
<1>2. \A f \in W : GoodFile(f)
  BY <1>1, InfoGood
<1>3. walked \in Seq(W)
  <2> HIDE DEF p
  <2> QED
    BY <1>1, WalkProperties DEF walked, p
<1> HIDE DEF W
<1>4. \A n \in 1..Len(walked) : walked[n] \in W
  BY <1>3
<1> QED
  BY <1>2, <1>3, <1>4 DEF IsSeq

LEMMA SubjectsGood ==
  ASSUME InfosInv, NEW i
  PROVE  IsSeq(Subjects(i)) /\ Len(Subjects(i)) \in Nat
         /\ \A n \in 1..Len(Subjects(i)) : GoodFile(Subjects(i)[n])
<1> DEFINE globs == Tests[LastWord(Tests, {"expect"}, i)].x
           S == {n \in 1..Len(infos) : glob_match(infos[n].at, globs)}
           k == Kept(infos, S)
<1>1. PICK W : infos \in Seq(W)
  BY DEF InfosInv, IsSeq
<1>2. Subjects(i) = k
  BY DEF Subjects, Listed
<1> HIDE DEF S
<1>3. k \in Seq(W) /\ \A n \in 1..Len(k) : \E m \in 1..Len(infos) : k[n] = infos[m]
  BY <1>1, KeptProperties
<1> HIDE DEF k
<1>4. \A n \in 1..Len(k) : GoodFile(k[n])
  BY <1>3 DEF InfosInv
<1> QED
  BY <1>2, <1>3, <1>4 DEF IsSeq

\* A word is said: the sentence that ends with it, if one does, is true, or is
\* reported rightly, or raises.
LEMMA SaidNext ==
  ASSUME TypeOK, CheckInv, stage = "run", call <= Len(Tests), Says, call' = call + 1,
         UNCHANGED <<infos, manifest, args>>
  PROVE  /\ SaidInv' /\ Remembered' /\ UNCHANGED current_suite
         /\ \A r \in all_failures' : Real(r)'
<1>1. /\ call \in 1..Len(Tests) /\ call \in Nat \ {0} /\ Len(Tests) \in Nat
      /\ logical_reverse \in BOOLEAN
      /\ Suited /\ ~raised /\ Remembered
  <2>1. Suited /\ ~raised /\ Remembered
    BY DEF CheckInv, ChainInv
  <2>2. IsSeq(Tests)
    BY <2>1, SpeechTargets DEF Suited, Tests, Speech
  <2>3. Len(Tests) \in Nat
    BY <2>2, Joined
  <2> QED
    BY <2>1, <2>3 DEF TypeOK
<1>2. Remembered'
  BY <1>1, RememberedNext
<1>3. current_suite' = current_suite
  BY DEF Says, Expect, Attribute, do_not, key, _exist, Verb
<1>4. UNCHANGED Scene
  BY <1>3 DEF Scene
<1>5. /\ Tests' = Tests /\ \A op : Calls(op)' = Calls(op)
      /\ \A i : Subjects(i)' = Subjects(i)
      /\ \A i : Sentence(i)' = Sentence(i)
  BY <1>4, SceneStays
<1>6. /\ \A r \in all_failures' : r \in all_failures \/ Real(r)
      /\ ~raised' /\ all_failures' = {} =>
           /\ word.op = "exists" => Subjects(call) # <<>>
           /\ word.op = "verb" => Holds(Sentence(call), Subjects(call))
  <2>1. ASSUME word.op \notin {"exists", "verb"} PROVE UNCHANGED all_failures
    BY <2>1 DEF Says, Expect, Attribute, do_not, key
  <2>2. CASE word.op = "exists"
    <3>1. _exist(call)
      BY <2>2 DEF Says
    <3>2. files = Subjects(call) /\ ~logical_reverse
      BY <1>1, <2>2, ExistsPoised
    <3>3. /\ all_failures' = IF Len(files) > 0 THEN all_failures
                             ELSE all_failures \cup {[call |-> call, at |-> "none"]}
      BY <1>1, <3>1, <3>2 DEF _exist
    <3>4. Len(files) \in Nat /\ (Len(files) > 0 <=> files # <<>>)
      <4>1. IsSeq(Subjects(call))
        BY SubjectsGood DEF CheckInv
      <4> QED
        BY <3>2, <4>1, Joined
    <3>5. call \in Calls("exists")
      BY <1>1, <2>2 DEF Calls, word, Tests
    <3>6. \A r \in all_failures' : r \in all_failures \/ Real(r)
      BY <3>2, <3>3, <3>4, <3>5 DEF Real
    <3>7. all_failures' = {} => Subjects(call) # <<>>
      BY <3>2, <3>3, <3>4
    <3> QED
      BY <2>2, <3>6, <3>7
  <2>3. CASE word.op = "verb"
    <3> DEFINE s == Sentence(call)
    <3>1. /\ files = Subjects(call)
          /\ last_attribute = s.topic /\ last_attribute # "none"
          /\ word.verb = s.verb /\ word.x = s.x
          /\ Poised(s)
      BY <1>1, <2>3, SentencePoised
    <3> HIDE DEF s
    <3>2. Verb(s.verb, s.x, call)
      BY <2>3, <3>1 DEF Says
    <3>3. Len(files) \in Nat /\ \A n \in 1..Len(files) : GoodFile(files[n])
      BY <3>1, SubjectsGood DEF CheckInv
    <3>4. /\ ~raised' /\ all_failures' = {} => Holds(s, files)
          /\ \A r \in all_failures' :
               r \in all_failures \/ (r.call = call /\ FalseOf(s, files, r.at))
      BY <3>1, <3>2, <3>3, VerbSays
    <3>5. call \in Calls("verb")
      BY <1>1, <2>3 DEF Calls, word, Tests
    <3>6. \A r \in all_failures' : r \in all_failures \/ Real(r)
      BY <3>1, <3>4, <3>5 DEF Real, s
    <3>7. ~raised' /\ all_failures' = {} => Holds(Sentence(call), Subjects(call))
      BY <3>1, <3>4 DEF s
    <3> QED
      BY <2>3, <3>6, <3>7
  <2> QED
    BY <2>1, <2>2, <2>3
<1>7. \A r \in all_failures' : Real(r)'
  <2>1. \A r \in all_failures' : Real(r)
    BY <1>6 DEF CheckInv
  <2> QED
    BY <1>4, <2>1, RealStays
<1>8. all_failures \subseteq all_failures'
  BY DEF Says, Expect, Attribute, do_not, key, _exist, Verb, _compare
<1>9. SaidInv'
  <2> SUFFICES ASSUME all_failures' = {}, ~raised', current_suite' # None
               PROVE  /\ current_suite'.manifest = <<>> \/ manifest' = fixture(args'.suite)
                      /\ \A i \in Calls("exists")' : i < call' => Subjects(i)' # <<>>
                      /\ \A i \in Calls("verb")' :
                           i < call' => Holds(Sentence(i)', Subjects(i)')
    BY DEF SaidInv
  <2>1. /\ current_suite.manifest = <<>> \/ manifest = fixture(args.suite)
        /\ \A i \in Calls("exists") : i < call => Subjects(i) # <<>>
        /\ \A i \in Calls("verb") : i < call => Holds(Sentence(i), Subjects(i))
    BY <1>1, <1>3, <1>8 DEF CheckInv, SaidInv
  <2>2. ASSUME NEW i \in Calls("exists"), i < call' PROVE Subjects(i) # <<>>
    <3>1. i < call \/ (i = call /\ word.op = "exists")
      BY <1>1, <2>2 DEF Calls, word, Tests
    <3> QED
      BY <1>6, <2>1, <3>1
  <2>3. ASSUME NEW i \in Calls("verb"), i < call' PROVE Holds(Sentence(i), Subjects(i))
    <3>1. i < call \/ (i = call /\ word.op = "verb")
      BY <1>1, <2>3 DEF Calls, word, Tests
    <3> QED
      BY <1>6, <2>1, <3>1
  <2> QED
    BY <1>3, <1>5, <2>1, <2>2, <2>3
<1> QED
  BY <1>2, <1>3, <1>7, <1>9

LEMMA CheckInvariant == Spec => []CheckInv
<1>1. Init => CheckInv
  <2> SUFFICES ASSUME Init PROVE CheckInv
    OBVIOUS
  <2>1. IsSeq(<<>>) /\ Len(<<>>) = 0
    BY DEF IsSeq
  <2>2. infos = <<>> /\ stage = "arguments" /\ call = 1 /\ all_failures = {} /\ ~raised
        /\ current_suite = None
    BY DEF Init, NewChain
  <2> QED
    BY <2>1, <2>2 DEF CheckInv, ChainInv, SaidInv, BeginInv, EndInv, InfosInv
<1>2. TypeOK /\ CheckInv /\ [Next]_vars => CheckInv'
  <2> SUFFICES ASSUME TypeOK, CheckInv, [Next]_vars PROVE CheckInv'
    OBVIOUS
  <2> USE DEF NoneYet
  \* The steps after which the same has been said as before.
  <2>1. ASSUME UNCHANGED Scene, UNCHANGED <<call, all_failures>>, raised => raised'
        PROVE  /\ SaidInv' /\ InfosInv' /\ Suited' = Suited /\ Tests' = Tests
               /\ \A r \in all_failures' : Real(r)'
    <3>1. SaidInv'
      BY <2>1, SaidStays DEF CheckInv
    <3>2. \A r \in all_failures' : Real(r)'
      BY <2>1, RealStays DEF CheckInv
    <3>3. InfosInv' /\ Suited' = Suited /\ Tests' = Tests
      BY <2>1 DEF CheckInv, InfosInv, Suited, Tests, Scene
    <3> QED
      BY <3>1, <3>2, <3>3
  <2>2. CASE parse_args
    <3>1. /\ UNCHANGED Scene /\ UNCHANGED <<call, all_failures>> /\ ~raised
          /\ current_suite = None /\ call = 1 /\ all_failures = {}
          /\ \/ raised' = TRUE /\ stage' = "atexit"
             \/ stage' = "gather" /\ raised' = raised
      BY <2>2 DEF parse_args, ChainRest, Raise, Scene, CheckInv, BeginInv
    <3> QED
      BY <2>1, <3>1 DEF CheckInv, ChainInv, BeginInv, EndInv, Scene
  <2>3. CASE gather_files
    <3>1. /\ UNCHANGED Scene /\ UNCHANGED <<call, all_failures>> /\ ~raised
          /\ current_suite = None /\ call = 1 /\ all_failures = {}
          /\ \/ raised' = TRUE /\ stage' = "atexit"
             \/ stage' = "explain" /\ raised' = raised
      BY <2>3 DEF gather_files, gather_image, gather_archive, gather_unknown, ChainRest, Raise,
                  Scene, CheckInv, BeginInv
    <3> QED
      BY <2>1, <3>1 DEF CheckInv, ChainInv, BeginInv, EndInv, Scene
  <2>4. CASE explain_files
    <3>1. /\ UNCHANGED <<current_suite, args, package, call, all_failures>> /\ ~raised
          /\ current_suite = None /\ call = 1 /\ all_failures = {}
          /\ infos' = infos \/ infos' = walked
          /\ \/ raised' = TRUE /\ stage' = "atexit"
             \/ stage' = "suite" /\ raised' = raised
      BY <2>4 DEF explain_files, ChainRest, Raise, CheckInv, BeginInv
    <3>2. InfosInv'
      BY <3>1, WalkedGood DEF CheckInv, InfosInv
    <3> QED
      BY <3>1, <3>2 DEF CheckInv, ChainInv, SaidInv, BeginInv, EndInv
  <2>5. CASE start_suite
    <3>1. /\ UNCHANGED <<infos, manifest, args, call>> /\ ~raised
          /\ current_suite = None /\ call = 1 /\ all_failures = {} /\ raised \in BOOLEAN
      BY <2>5 DEF start_suite, CheckInv, BeginInv, TypeOK
    <3>2. CASE args.suite = NoSuite /\ stage' = "output" /\ UNCHANGED chainVars
      <4>1. UNCHANGED Scene /\ UNCHANGED <<call, all_failures, raised>>
        BY <3>1, <3>2 DEF chainVars, Scene
      <4> QED
        BY <2>1, <3>1, <3>2, <4>1 DEF CheckInv, ChainInv, BeginInv, EndInv
    <3>3. CASE Raise /\ ChainRest
      <4>1. UNCHANGED Scene /\ UNCHANGED <<call, all_failures>> /\ raised' = TRUE
            /\ stage' = "atexit"
        BY <3>1, <3>3 DEF Raise, ChainRest, Scene
      <4> QED
        BY <2>1, <3>1, <4>1 DEF CheckInv, ChainInv, BeginInv, EndInv
    <3>4. CASE /\ args.suite \in DOMAIN Targets
               /\ compare_manifest(Targets[args.suite], manifest # fixture(args.suite), 0)
               /\ stage' = "run"
      <4>1. /\ current_suite' = Targets[args.suite] /\ raised' = raised
            /\ all_failures' = IF current_suite'.manifest # <<>> /\ manifest # fixture(args.suite)
                               THEN {[call |-> 0, at |-> "none"]} ELSE {}
        BY <3>1, <3>4 DEF compare_manifest
      <4>2. Suited'
        BY <3>1, <3>4, <4>1 DEF Suited
      <4>3. Len(Tests') \in Nat
        <5>1. Speech(Tests')
          BY <3>1, <3>4, <4>1, SpeechTargets DEF Tests
        <5> QED
          BY <5>1, Joined DEF Speech
      <4>4. Remembered'
        <5>1. \A s, ops : LastWord(s, ops, 1) = 0
          BY LastWordIs
        <5>2. LastExpect(call)' = 0 /\ LastNamed(call)' = 0
          BY <3>1, <5>1 DEF LastExpect, LastNamed
        <5> QED
          BY <5>2 DEF Remembered
      <4>5. ChainInv'
        BY <3>1, <4>1, <4>2, <4>3, <4>4 DEF ChainInv
      <4>6. \A r \in all_failures' : Real(r)'
        BY <3>1, <4>1 DEF Real
      <4>7. SaidInv'
        <5>1. \A op : \A i \in Calls(op)' : ~(i < call')
          BY <3>1 DEF Calls
        <5> QED
          BY <3>1, <4>1, <5>1 DEF SaidInv
      <4>8. InfosInv'
        BY <3>1 DEF CheckInv, InfosInv
      <4> QED
        BY <3>4, <4>5, <4>6, <4>7, <4>8 DEF CheckInv, BeginInv, EndInv
    <3> QED
      BY <2>5, <3>2, <3>3, <3>4 DEF start_suite
  <2>6. CASE run
    <3>1. stage = "run" /\ UNCHANGED <<infos, manifest, args>> /\ Suited /\ ~raised
      BY <2>6 DEF run, CheckInv, ChainInv
    <3>2. CASE /\ call <= Len(Tests) /\ Says /\ call' = call + 1
               /\ stage' = IF raised' THEN "atexit" ELSE "run"
      <4>1. /\ SaidInv' /\ Remembered' /\ current_suite' = current_suite
            /\ \A r \in all_failures' : Real(r)'
        BY <3>1, <3>2, SaidNext
      <4>2. Suited' /\ InfosInv' /\ Tests' = Tests
        BY <3>1, <4>1 DEF Suited, CheckInv, InfosInv, Tests
      <4>3. ChainInv'
        <5>1. Len(Tests) \in Nat
          <6>1. IsSeq(Tests)
            BY <3>1, SpeechTargets DEF Suited, Tests, Speech
          <6> QED
            BY <6>1, Joined
        <5>2. call' <= Len(Tests') + 1
          BY <3>2, <4>2, <5>1 DEF TypeOK
        <5> QED
          BY <3>2, <4>1, <4>2, <5>2 DEF ChainInv
      <4>4. BeginInv' /\ EndInv'
        BY <3>2 DEF BeginInv, EndInv
      <4> QED
        BY <4>1, <4>2, <4>3, <4>4 DEF CheckInv
    <3>3. CASE call > Len(Tests) /\ stage' = "output" /\ UNCHANGED <<call, chainVars>>
      <4>1. UNCHANGED Scene /\ UNCHANGED <<call, all_failures, raised>>
        BY <3>1, <3>3 DEF chainVars, Scene
      <4> QED
        BY <2>1, <3>1, <3>3, <4>1 DEF CheckInv, ChainInv, BeginInv, EndInv
    <3> QED
      BY <2>6, <3>2, <3>3 DEF run, Says, Tests
  <2>7. CASE output
    <3>1. /\ stage = "output" /\ UNCHANGED Scene /\ UNCHANGED <<call, all_failures>>
          /\ stage' = "atexit" /\ (raised' = raised \/ raised' = TRUE)
      BY <2>7 DEF output, ChainRest, Raise, Scene
    <3> QED
      BY <2>1, <3>1 DEF CheckInv, ChainInv, BeginInv, EndInv, Scene
  <2>8. CASE _print_all_fails \/ cleanup
    <3>1. /\ stage \in {"atexit", "cleanup"} /\ stage' \in {"cleanup", "done"}
          /\ UNCHANGED Scene /\ UNCHANGED <<call, all_failures, raised>>
      BY <2>8 DEF _print_all_fails, cleanup, chainVars, Scene
    <3> QED
      BY <2>1, <3>1 DEF CheckInv, ChainInv, BeginInv, EndInv, Scene
  <2>9. CASE UNCHANGED vars
    <3>1. UNCHANGED Scene /\ UNCHANGED <<call, all_failures, raised>> /\ UNCHANGED <<stage, files,
          logical_reverse, last_attribute, key_name>>
      BY <2>9 DEF vars, chainVars, runVars, Scene
    <3>2. Remembered' = Remembered
      BY <3>1 DEF Remembered, LastExpect, LastNamed, Tests, Scene
    <3> QED
      BY <2>1, <3>1, <3>2 DEF CheckInv, ChainInv, BeginInv, EndInv, Scene
  <2> QED
    BY <2>2, <2>3, <2>4, <2>5, <2>6, <2>7, <2>8, <2>9 DEF Next
<1> QED
  BY <1>1, <1>2, TypeCorrect, PTL DEF Spec

\* What is recorded as a failure is one: the manifest differs from the
\* fixture, a file asked for is not there, or the sentence, read as English,
\* is false of the file that is named.
THEOREM ReportsOnlyFailures == Spec => []FailuresAreReal
<1>1. CheckInv => FailuresAreReal
  BY DEF CheckInv, FailuresAreReal, Real
<1> QED
  BY <1>1, CheckInvariant, PTL

\* A target is never the None that the chain begins with.
LEMMA TargetsAreSuites == \A t \in DOMAIN Targets : Targets[t] # None
<1>1. \A s, c, l, a, b, d : Suites!Suite(s, c, l, a, b, d) # None
  <2> TAKE s, c, l, a, b, d
  <2>1. "manifest" \in DOMAIN Suites!Suite(s, c, l, a, b, d)
    BY DEF Suites!Suite
  <2>2. "manifest" \notin DOMAIN None
    BY DEF None
  <2> QED
    BY <2>1, <2>2
<1>2. \A d : Suites!amd64_target(d) # None
  BY <1>1, Zenon DEF Suites!amd64_target
<1>3. \A d : Suites!arm64_target(d) # None
  <2> TAKE d
  <2>1. "manifest" \in DOMAIN Suites!arm64_target(d)
    BY DEF Suites!arm64_target
  <2>2. "manifest" \notin DOMAIN None
    BY DEF None
  <2> QED
    BY <2>1, <2>2
<1>4. Suites!docker_target # None
  <2>1. "manifest" \in DOMAIN Suites!docker_target
    BY DEF Suites!docker_target
  <2>2. "manifest" \notin DOMAIN None
    BY DEF None
  <2> QED
    BY <2>1, <2>2
<1> QED
  BY <1>2, <1>3, <1>4, Zenon DEF Targets, Suites!targets

\* Exit code 0 of a suite, of any target, means that the manifest is the
\* fixture's, that every file asked for is there, and that every sentence not
\* waived is true of every file it reads, whatever was said before it.
THEOREM PassingMeansTrue == Spec => []PassMeansHolds
<1>1. TypeOK /\ ExitInv /\ CheckInv => PassMeansHolds
  <2> SUFFICES ASSUME TypeOK, ExitInv, CheckInv,
                      stage = "done", exit_code = 0, args.suite # NoSuite
               PROVE  /\ args.suite \in DOMAIN Targets
                      /\ current_suite.manifest = <<>> \/ manifest = fixture(args.suite)
                      /\ \A i \in Calls("exists") : Subjects(i) # <<>>
                      /\ \A i \in Calls("verb") : Holds(Sentence(i), Subjects(i))
    BY DEF PassMeansHolds
  <2>1. all_failures = {} /\ ~raised
    BY DEF ExitInv
  <2>2. Suited /\ call > Len(Tests)
    BY <2>1 DEF CheckInv, EndInv
  <2>3. current_suite # None
    BY <2>2, TargetsAreSuites DEF Suited
  <2>4. \A op : \A i \in Calls(op) : i < call
    BY <2>2 DEF Calls, TypeOK
  <2> QED
    BY <2>1, <2>2, <2>3, <2>4 DEF CheckInv, SaidInv, Suited
<1> QED
  BY <1>1, TypeCorrect, ExitInvariant, CheckInvariant, PTL
=============================================================================
