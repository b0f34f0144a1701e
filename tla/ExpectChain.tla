---------------------------- MODULE ExpectChain -----------------------------
(***************************************************************************)
(* scripts/explain_manifest/expect.py: the chain object on which a suite   *)
(* strings its sentences together, as in                                   *)
(*    expect(glob, msg).needed_libraries.do_not().contain("libpcre")       *)
(* Each word is a call that changes the chain's state; a verb judges the   *)
(* files matched so far.  One action per kind of word.                     *)
(***************************************************************************)
EXTENDS PackageFiles

VARIABLES
  current_suite,     \* the suite: its manifest, use_rpath and tests; None before
  files,             \* the infos that the last expect() matched
  logical_reverse,   \* do_not was said of the last attribute
  last_attribute,    \* its name, "none" before any
  key_name,          \* the key of a dict attribute, "none" if not given
  all_failures,      \* what exit reports: records of the verb and the file
  raised             \* a call raised

chainVars == <<current_suite, files, logical_reverse, last_attribute, key_name,
               all_failures, raised>>

(***************************************************************************)
(* What a verb finds in one value: "yes", "no", or "raises" where Python   *)
(* refuses the operation.  On a list less_than looks at the largest item   *)
(* and greater_than at the SMALLEST.                                       *)
(***************************************************************************)
YesNo(b) == IF b THEN "yes" ELSE "no"

_equal(w, x) == YesNo(w.kind = "scalar" /\ w.v = x)
_match(w, x) == IF w.kind = "text" THEN YesNo(x \in w.v) ELSE "raises"
_less_than(w, x) ==
  IF w.kind = "list" /\ w.v # {} THEN YesNo(Max(w.v) < x)
  ELSE IF w.kind = "scalar" THEN YesNo(w.v < x) ELSE "raises"
_greater_than(w, x) ==
  IF w.kind = "list" /\ w.v # {} THEN YesNo(Min(w.v) > x)
  ELSE IF w.kind = "scalar" THEN YesNo(w.v > x) ELSE "raises"
_contain(w, x) == YesNo(w.kind = "list" /\ x \in w.v)
_contain_match(w, xs) == YesNo(w.kind = "list" /\ w.v \cap xs # {})

Judge(verb, w, x) ==
  IF w.kind = "raises" THEN "raises"
  ELSE CASE verb = "equal"          -> _equal(w, x)
         [] verb = "match"          -> _match(w, x)
         [] verb = "less_than"      -> _less_than(w, x)
         [] verb = "greater_than"   -> _greater_than(w, x)
         [] verb = "contain"        -> _contain(w, x)
         [] verb = "contain_match"  -> _contain_match(w, x)

(***************************************************************************)
(* _compare walks the matched files in order.  The walk ends at a file     *)
(* whose dict lacks the key (accepted, and the files behind it with it),   *)
(* at one that fails, or at one on which the verb raises.                  *)
(***************************************************************************)
KeyMissing(w) == key_name # "none" /\ w.kind = "dict" /\ key_name \notin DOMAIN w.v
Looked(w) == IF key_name # "none" /\ w.kind = "dict" THEN ListOf(w.v[key_name]) ELSE w

Outcome(f, attr, verb, x) ==
  LET w == f.attrs[attr] IN
  IF KeyMissing(w) THEN "accepted"
  ELSE LET j == Judge(verb, Looked(w), x)
       IN IF j = "raises" THEN "raises"
          ELSE IF (j = "yes") = logical_reverse THEN "fails" ELSE "goes on"

\* Mutant: the first file that does not fail ends the walk.
CompareFirst(attr, verb, x, call) ==
  LET out == IF files = <<>> THEN "accepted" ELSE Outcome(files[1], attr, verb, x)
  IN /\ raised' = (out = "raises")
     /\ all_failures' = IF out = "fails"
                        THEN all_failures \cup {[call |-> call, at |-> files[1].at]}
                        ELSE all_failures
_compare(attr, verb, x, call) ==
  LET stops == {i \in 1..Len(files) : Outcome(files[i], attr, verb, x) # "goes on"}
      first == Min(stops)
      out   == IF stops = {} THEN "accepted" ELSE Outcome(files[first], attr, verb, x)
  IN /\ raised' = (out = "raises")
     /\ all_failures' = IF out = "fails"
                        THEN all_failures \cup {[call |-> call, at |-> files[first].at]}
                        ELSE all_failures

(***************************************************************************)
(* The words.                                                              *)
(***************************************************************************)
_reset == /\ logical_reverse' = FALSE
          /\ last_attribute' = "none"

Expect(infos, globs) ==
  /\ _reset
  /\ files' = Listed(infos, globs)
  /\ UNCHANGED <<current_suite, key_name, all_failures, raised>>

\* Mutant: only runpath is taken for the other of the two.
ResolvedOneWay(name, use_rpath) ==
  IF use_rpath /\ name = "runpath" THEN "rpath" ELSE name
(* rpath and runpath stand for whichever of the two the suite's packages   *)
(* carry.                                                                  *)
Resolved(name, use_rpath) ==
  IF use_rpath /\ name = "runpath" THEN "rpath"
  ELSE IF ~use_rpath /\ name = "rpath" THEN "runpath"
  ELSE name

Attribute(name) ==
  /\ last_attribute' = Resolved(name, current_suite.use_rpath)
  /\ logical_reverse' = FALSE
  /\ key_name' = "none"
  /\ UNCHANGED <<current_suite, files, all_failures, raised>>

do_not ==
  /\ logical_reverse' = TRUE
  /\ UNCHANGED <<current_suite, files, last_attribute, key_name, all_failures, raised>>

key(k) ==
  /\ key_name' = k
  /\ UNCHANGED <<current_suite, files, logical_reverse, last_attribute, all_failures, raised>>

(* exists: how many files match, whatever attribute was named.             *)
_exist(call) ==
  /\ all_failures' = IF (Len(files) > 0) = logical_reverse
                     THEN all_failures \cup {[call |-> call, at |-> "none"]}
                     ELSE all_failures
  /\ UNCHANGED <<current_suite, files, logical_reverse, last_attribute, key_name, raised>>

(* A verb is a dummy when no attribute was named or a matched file lacks   *)
(* it: "[FAIL]" is printed and nothing is recorded.  Looking for a lazy    *)
(* attribute evaluates it, which may raise.                                *)
Dummy == \/ last_attribute = "none"
         \/ \E i \in 1..Len(files) : last_attribute \notin DOMAIN files[i].attrs

LookRaises ==
  \E i \in 1..Len(files) :
    /\ last_attribute \in DOMAIN files[i].attrs
    /\ files[i].attrs[last_attribute].kind = "raises"
    /\ \A j \in 1..(i - 1) : last_attribute \in DOMAIN files[j].attrs

Verb(verb, x, call) ==
  /\ \/ /\ LookRaises
        /\ raised' = TRUE
        /\ UNCHANGED all_failures
     \/ /\ ~LookRaises
        /\ Dummy
        /\ UNCHANGED <<all_failures, raised>>
     \/ /\ ~LookRaises
        /\ ~Dummy
        /\ _compare(last_attribute, verb, x, call)
  /\ UNCHANGED <<current_suite, files, logical_reverse, last_attribute, key_name>>

(* ExpectChain(infos), and the failure that compare_manifest records.      *)
NewChain ==
  /\ files = <<>> /\ logical_reverse = FALSE /\ last_attribute = "none"
  /\ key_name = "none" /\ all_failures = {} /\ raised = FALSE
  /\ current_suite = None

compare_manifest(suite, differs, call) ==
  /\ current_suite' = suite
  /\ all_failures' = IF suite.manifest # <<>> /\ differs
                     THEN all_failures \cup {[call |-> call, at |-> "none"]}
                     ELSE all_failures
  /\ UNCHANGED <<files, logical_reverse, last_attribute, key_name, raised>>
=============================================================================
