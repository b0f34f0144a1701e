--------------------------- MODULE ExplainManifest --------------------------
(***************************************************************************)
(* scripts/explain_manifest/main.py: the release check of a package or an  *)
(* image.  It unpacks the package into a temporary directory, explains the *)
(* files, compares the manifest with the target's fixture, says the words  *)
(* of the target's suite to the chain, writes the manifest where --output  *)
(* says, and leaves through the handlers registered with atexit, the last  *)
(* registered first.  One action per stage of the program.                 *)
(***************************************************************************)
EXTENDS ExpectChain

Suites  == INSTANCE ExplainSuites
Targets == Suites!targets

CONSTANTS
  Packages,    \* a sequence of packages, each a sequence of entries
  Arguments,   \* the command lines to try
  Reference    \* target -> the package and the file list of its fixture

ASSUME ArgumentsAssumption ==
  /\ Arguments \subseteq
       [path : {"none", "archive", "directory", "other"}, image : BOOLEAN, root : BOOLEAN,
        suite : DOMAIN Targets \cup {<<>>, <<"unknown">>},
        output : {"none", "file", "stdout"}, globs : SUBSET STRING,
        opts : SUBSET STRING]
  /\ DOMAIN Reference \subseteq DOMAIN Targets

(* What a package is: a sequence of entries; the versions that an ELF file  *)
(* requires of a library are finitely many.                                *)
ASSUME PackagesAssumption ==
  /\ Packages \in Seq(Range(Packages))
  /\ \A p \in 1..Len(Packages) :
       /\ Packages[p] \in Seq(Range(Packages[p]))
       /\ \A i \in 1..Len(Packages[p]) : VersionsKnown(Packages[p][i].elf)

VARIABLES
  stage,        \* where the program is
  args,         \* its command line
  package,      \* the index of the package it is given
  infos,        \* what walk_files returned
  manifest,     \* what write_manifest returned
  call,         \* the next word of the suite's script
  tmp,          \* the temporary directory: "none", "made" or "removed"
  container,    \* a container made from the image is left on the host
  written,      \* the manifest's way out: "no", "buffered" or "yes"
  exit_code

runVars == <<stage, args, package, infos, manifest, call, tmp, container, written, exit_code>>
vars == <<chainVars, runVars>>

NoSuite == <<>>
walked  == walk_files(Packages[package],
                      IF args.image /\ args.globs # {} THEN args.globs ELSE {"**"})

(* diff -N: a target without a fixture is compared with an empty file.     *)
fixture(t) == IF t \in DOMAIN Reference
              THEN write_manifest(walk_files(Reference[t].package, {"**"}),
                                  Reference[t].globs, {})
              ELSE <<>>

Init ==
  /\ NewChain
  /\ args \in Arguments
  /\ package \in 1..Len(Packages)
  /\ stage = "arguments" /\ infos = <<>> /\ manifest = <<>> /\ call = 1
  /\ tmp = "none" /\ container = FALSE /\ written = "no" /\ exit_code = 0

(* An exception ends the program: only the atexit handlers follow.         *)
Raise == raised' = TRUE /\ stage' = "atexit"
ChainRest == UNCHANGED <<current_suite, files, logical_reverse, last_attribute, key_name,
                         all_failures>>

Refused == \/ args.suite = NoSuite /\ args.output = "none"
           \/ args.path = "none" /\ ~args.image
           \/ args.image /\ ~args.root
           \/ args.path = "directory"

parse_args ==
  /\ stage = "arguments"
  /\ \/ Refused /\ Raise
     \/ ~Refused /\ stage' = "gather" /\ UNCHANGED raised
  /\ ChainRest
  /\ UNCHANGED <<args, package, infos, manifest, call, tmp, container, written, exit_code>>

(* docker pull && docker create && docker export | tar && docker rm: what  *)
(* fails behind the create leaves the container.                           *)
gather_image ==
  /\ args.image
  /\ tmp' = "made"
  /\ \/ stage' = "explain" /\ UNCHANGED <<raised, container>>
     \/ Raise /\ container' \in BOOLEAN

gather_archive ==
  /\ ~args.image /\ args.path = "archive"
  /\ tmp' = "made"
  /\ \/ stage' = "explain" /\ UNCHANGED raised
     \/ Raise
  /\ UNCHANGED container

gather_unknown ==
  /\ ~args.image /\ args.path = "other"
  /\ Raise
  /\ UNCHANGED <<tmp, container>>

gather_files ==
  /\ stage = "gather"
  /\ gather_image \/ gather_archive \/ gather_unknown
  /\ ChainRest
  /\ UNCHANGED <<args, package, infos, manifest, call, written, exit_code>>

(* read_glob opens the file list that --file_list names, if it does.       *)
explain_files ==
  /\ stage = "explain"
  /\ \/ args.globs # {"**"} /\ Raise /\ UNCHANGED <<infos, manifest>>
     \/ /\ infos' = walked
        /\ \/ /\ ManifestRaises(infos', args.globs, args.opts)
              /\ Raise
              /\ UNCHANGED manifest
           \/ /\ ~ManifestRaises(infos', args.globs, args.opts)
              /\ manifest' = write_manifest(infos', args.globs, args.opts)
              /\ stage' = "suite"
              /\ UNCHANGED raised
  /\ ChainRest
  /\ UNCHANGED <<args, package, call, tmp, container, written, exit_code>>

start_suite ==
  /\ stage = "suite"
  /\ \/ /\ args.suite = NoSuite
        /\ stage' = "output"
        /\ UNCHANGED chainVars
     \/ /\ args.suite \notin DOMAIN Targets \cup {NoSuite}
        /\ Raise
        /\ ChainRest
     \/ /\ args.suite \in DOMAIN Targets
        /\ compare_manifest(Targets[args.suite], manifest # fixture(args.suite), 0)
        /\ stage' = "run"
  /\ UNCHANGED <<args, package, infos, manifest, call, tmp, container, written, exit_code>>

word == current_suite.tests[call]

run ==
  /\ stage = "run"
  /\ \/ /\ call <= Len(current_suite.tests)
        /\ \/ word.op = "expect" /\ Expect(infos, word.x)
           \/ word.op = "attribute" /\ Attribute(word.x)
           \/ word.op = "not" /\ do_not
           \/ word.op = "key" /\ key(word.x)
           \/ word.op = "exists" /\ _exist(call)
           \/ word.op = "verb" /\ Verb(word.verb, word.x, call)
        /\ call' = call + 1
        /\ stage' = IF raised' THEN "atexit" ELSE "run"
     \/ /\ call > Len(current_suite.tests)
        /\ stage' = "output"
        /\ UNCHANGED <<call, chainVars>>
  /\ UNCHANGED <<args, package, infos, manifest, tmp, container, written, exit_code>>

(* A file is closed here; standard output is flushed at a normal exit. The *)
(* file may not open.                                                      *)
output ==
  /\ stage = "output"
  /\ \/ stage' = "atexit" /\ UNCHANGED raised
        /\ written' = CASE args.output = "none"   -> "no"
                        [] args.output = "stdout" -> "buffered"
                        [] args.output = "file"   -> "yes"
     \/ args.output = "file" /\ Raise /\ UNCHANGED written
  /\ ChainRest
  /\ UNCHANGED <<args, package, infos, manifest, call, tmp, container, exit_code>>

\* Mutants: the exit code counts the failures; the process always ends here.
ExitCounts ==
  /\ stage = "atexit"
  /\ IF all_failures # {}
     THEN exit_code' = Cardinality(all_failures) /\ stage' = "done"
     ELSE stage' = "cleanup" /\ UNCHANGED exit_code
  /\ UNCHANGED <<chainVars, args, package, infos, manifest, call, tmp, container, written>>
ExitAlways ==
  /\ stage = "atexit"
  /\ exit_code' = IF raised \/ all_failures # {} THEN 1 ELSE 0
  /\ stage' = "done"
  /\ UNCHANGED <<chainVars, args, package, infos, manifest, call, tmp, container, written>>
(* The chain's handler runs before the directory's: with failures it ends  *)
(* the process on the spot, without the later handlers or a flush.         *)
_print_all_fails ==
  /\ stage = "atexit"
  /\ IF all_failures # {}
     THEN exit_code' = 1 /\ stage' = "done"
     ELSE stage' = "cleanup" /\ UNCHANGED exit_code
  /\ UNCHANGED <<chainVars, args, package, infos, manifest, call, tmp, container, written>>

\* Mutant: the directory is removed at the end of the program, not at exit.
CleanupAtEnd ==
  /\ stage = "cleanup"
  /\ tmp' = IF tmp = "made" /\ ~raised THEN "removed" ELSE tmp
  /\ written' = IF written = "buffered" THEN "yes" ELSE written
  /\ exit_code' = IF raised THEN 1 ELSE 0
  /\ stage' = "done"
  /\ UNCHANGED <<chainVars, args, package, infos, manifest, call, container>>
(* TemporaryDirectory.cleanup, the flush of standard output, the exit code.*)
cleanup ==
  /\ stage = "cleanup"
  /\ tmp' = IF tmp = "made" THEN "removed" ELSE tmp
  /\ written' = IF written = "buffered" THEN "yes" ELSE written
  /\ exit_code' = IF raised THEN 1 ELSE 0
  /\ stage' = "done"
  /\ UNCHANGED <<chainVars, args, package, infos, manifest, call, container>>

Next == \/ parse_args \/ gather_files \/ explain_files \/ start_suite \/ run \/ output
        \/ _print_all_fails \/ cleanup

Spec == Init /\ [][Next]_vars

(***************************************************************************)
(* Properties.                                                             *)
(***************************************************************************)
Stages == {"arguments", "gather", "explain", "suite", "run", "output", "atexit",
           "cleanup", "done"}

(* The variables have their types.                                         *)
TypeOK ==
  /\ stage \in Stages
  /\ args \in Arguments
  /\ package \in 1..Len(Packages)
  /\ Len(infos) <= Len(Packages[package])
  /\ call \in Nat \ {0}
  /\ tmp \in {"none", "made", "removed"}
  /\ container \in BOOLEAN /\ logical_reverse \in BOOLEAN /\ raised \in BOOLEAN
  /\ written \in {"no", "buffered", "yes"}
  /\ exit_code \in {0, 1}
  /\ current_suite = None \/ current_suite = Targets[args.suite]
  /\ \A f \in all_failures : f.call \in 0..(call - 1)

(* A suite read as English: the sentence that ends with the verb i.  It    *)
(* speaks of the files of the last glob before it, of the last attribute,  *)
(* and "not" and "key" bind it when they stand behind that attribute.      *)
Tests == current_suite.tests
LastWord(s, ops, i) == Max({0} \cup {j \in 1..(i - 1) : s[j].op \in ops})
Behind(s, start, op, i) == {j \in (start + 1)..(i - 1) : s[j].op = op}
Named(name, use_rpath) == IF name \notin {"rpath", "runpath"} THEN name
                          ELSE IF use_rpath THEN "rpath" ELSE "runpath"
Reading(s, start, i) ==
  [topic   |-> Named(s[start].x, current_suite.use_rpath),
   negated |-> Behind(s, start, "not", i) # {},
   keys    |-> {s[j].x : j \in Behind(s, start, "key", i)},
   verb    |-> s[i].verb,
   x       |-> s[i].x]
Sentence(i) == Reading(Tests, LastWord(Tests, {"expect", "attribute"}, i), i)
Subjects(i) == Listed(infos, Tests[LastWord(Tests, {"expect"}, i)].x)
Calls(op) == {i \in 1..Len(Tests) : Tests[i].op = op}

(* The value a sentence is about, and the plain meaning of its verb; of a  *)
(* list, "greater than" asks it of every version.                          *)
Under(w, keys) ==
  IF w.kind # "dict" \/ keys = {} THEN w
  ELSE IF keys \subseteq DOMAIN w.v THEN ListOf(w.v[CHOOSE k \in keys : TRUE]) ELSE Absent
About(s, f) == Under(f.attrs[s.topic], s.keys)
Means(verb, w, x) ==
  CASE verb = "equal"         -> w.kind = "scalar" /\ w.v = x
    [] verb = "match"         -> x \in w.v
    [] verb = "contain"       -> w.kind = "list" /\ x \in w.v
    [] verb = "contain_match" -> w.kind = "list" /\ \E e \in w.v : e \in x
    [] verb = "less_than"     -> \A v \in w.v : v < x
    [] verb = "greater_than"  -> \A v \in w.v : v > x
TrueOf(s, f) == Means(s.verb, About(s, f), s.x) # s.negated

(* What the code lets pass: a sentence about an attribute that one of its  *)
(* files does not have, and the files from the first without the key on.   *)
Waived(s, subjects) == \E n \in 1..Len(subjects) : s.topic \notin DOMAIN subjects[n].attrs
Unread(s, subjects, n) == \E m \in 1..n : About(s, subjects[m]) = Absent
Holds(s, subjects) ==
  ~Waived(s, subjects) =>
    \A n \in 1..Len(subjects) : Unread(s, subjects, n) \/ TrueOf(s, subjects[n])
FalseOf(s, subjects, at) ==
  \E n \in 1..Len(subjects) :
    subjects[n].at = at /\ ~Unread(s, subjects, n) /\ ~TrueOf(s, subjects[n])

(* expect.py/main.py: exit code 0 of a suite means that the manifest is    *)
(* the fixture's, every file asked for exists, and every sentence that is  *)
(* not waived is true of every file it reads - whatever was said before    *)
(* it on the same chain.                                                   *)
PassMeansHolds ==
  stage = "done" /\ exit_code = 0 /\ args.suite # NoSuite =>
    /\ args.suite \in DOMAIN Targets
    /\ current_suite.manifest = <<>> \/ manifest = fixture(args.suite)
    /\ \A i \in Calls("exists") : Subjects(i) # <<>>
    /\ \A i \in Calls("verb") : Holds(Sentence(i), Subjects(i))

(* expect.py: what is recorded as a failure is one: the manifest differs,  *)
(* a file asked for is not there, or the sentence is false of the file     *)
(* named, which no file without the key precedes.                          *)
FailuresAreReal ==
  \A r \in all_failures :
    \/ r.call = 0 /\ manifest # fixture(args.suite)
    \/ r.call \in Calls("exists") /\ Subjects(r.call) = <<>>
    \/ r.call \in Calls("verb") /\ FalseOf(Sentence(r.call), Subjects(r.call), r.at)

(* main.py:65,81 with atexit: when the program has gone, its temporary     *)
(* directory stays only if failures were reported, and a container only if *)
(* the extraction of the image failed.                                     *)
LeftBehindExplained ==
  stage = "done" =>
    /\ tmp # "made" \/ (all_failures # {} /\ exit_code = 1)
    /\ container => raised /\ manifest = <<>> /\ all_failures = {}

(* main.py:204: a manifest asked for is delivered by every run that does   *)
(* not raise, with the one exception of standard output behind recorded    *)
(* failures; and never is one delivered that is not the package's.         *)
ManifestDelivered ==
  stage = "done" =>
    /\ ~raised /\ args.output = "file" => written = "yes"
    /\ ~raised /\ args.output = "stdout" /\ all_failures = {} => written = "yes"
    /\ written = "yes" => manifest = write_manifest(walked, args.globs, args.opts)

(* A file that the sentence reads needs a version above the maximum.       *)
Exceeds(s, subjects) ==
  \E n \in 1..Len(subjects) :
    /\ ~Unread(s, subjects, n)
    /\ \E v \in About(s, subjects[n]).v : SameSet(v, s.x) /\ v > s.x

(* suites.py:89 "libc version is less than %s", :96 glibcxx, :100 cxxabi:  *)
(* a suite that passes read no version of that set above the maximum.      *)
VersionsBelowMax ==
  stage = "done" /\ exit_code = 0 /\ args.suite \in DOMAIN Targets =>
    \A i \in {c \in Calls("verb") : Tests[c].verb = "greater_than"} :
      Waived(Sentence(i), Subjects(i)) \/ ~Exceeds(Sentence(i), Subjects(i))
=============================================================================
