----------------------------- MODULE EhsmProofs -----------------------------
(***************************************************************************)
(* Theorems about EhsmPlugin, for any number of workers.                   *)
(*                                                                         *)
(* What a client signs with is a copy of the file, and the file is written *)
(* from curl's answers and from the buffers of files left open.  Halves    *)
(* says of all of these what CredPairs says of the clients: a pair is of   *)
(* one enrollment, or its appid is one that came without an apikey, which  *)
(* all appids in such buffers are.                                         *)
(***************************************************************************)
EXTENDS EhsmPlugin, TLAPS

Halves ==
  /\ Whole(credentials)
  /\ \A w \in Workers : Whole(answer[w]) /\ unclosed[w] \subseteq alone

IInv == TypeOK /\ Halves /\ CredPairs

(* A pair or key the server had granted it still has granted later.        *)
LEMMA GrantsGrow ==
  ASSUME NEW m \in Nat, NEW n \in Nat, m <= n
  PROVE  /\ [appid : -1..m, apikey : -1..m] \subseteq [appid : -1..n, apikey : -1..n]
         /\ [id : -1..m, tail : BOOLEAN] \subseteq [id : -1..n, tail : BOOLEAN]
         /\ -1..m \subseteq -1..n /\ 1..m \subseteq 1..n
<1>1. -1..m \subseteq -1..n /\ 1..m \subseteq 1..n
  OBVIOUS
<1> QED BY <1>1

LEMMA NothingHeld ==
  ASSUME IInv
  PROVE  /\ enrolled \in Nat /\ created \in Nat /\ -1 \in -1..created
         /\ NoPair \in Pairs /\ Pair(0) \in Pairs /\ NoKey \in Keys
         /\ Whole(NoPair) /\ Whole(Pair(0))
<1>1. enrolled \in Nat /\ created \in Nat
  BY BoundsAssumption DEF IInv, TypeOK
<1>2. -1 \in -1..enrolled /\ -1 \in -1..created /\ 0 \in -1..enrolled
  BY <1>1
<1> QED BY <1>1, <1>2 DEF NoPair, Pair, NoKey, Key, Pairs, Keys, Whole

(* What the end of a request leaves of the variables it touches.           *)
LEMMA RespondKeeps ==
  ASSUME IInv, NEW w \in Workers, Respond(w), UNCHANGED <<same_tree, server, alone>>
  PROVE  /\ pc' \in [Workers -> Steps]
         /\ command' \in [Workers -> Commands \cup {NoCommand}]
         /\ answer' \in [Workers -> Pairs']
         /\ pair' \in [Workers -> Pairs'] /\ key' \in [Workers -> Keys']
         /\ CredPairs'
         /\ \A u \in Workers : answer'[u] = NoPair \/ answer'[u] = answer[u]
<1>1. Pairs' = Pairs /\ Keys' = Keys
  BY DEF Pairs, Keys, server
<1>2. /\ pc' = [pc EXCEPT ![w] = "idle"] /\ command' = [command EXCEPT ![w] = NoCommand]
      /\ answer' = [answer EXCEPT ![w] = NoPair]
      /\ pair' = [pair EXCEPT ![w] = NoPair] /\ key' = [key EXCEPT ![w] = NoKey]
  BY DEF Respond, Goto
<1>3. \A u \in Workers : Whole(pair'[u])
  BY <1>2, NothingHeld DEF IInv, TypeOK, CredPairs
<1>4. CredPairs'
  BY <1>3 DEF CredPairs, Whole
<1> QED BY <1>1, <1>2, <1>4, NothingHeld DEF IInv, TypeOK, Steps

(* A request that ends and writes no credentials.                          *)
LEMMA EndKeeps ==
  ASSUME IInv, NEW w \in Workers, Respond(w),
         UNCHANGED <<same_tree, server, credentials, alone>>,
         \A u \in Workers : unclosed'[u] \subseteq alone,
         unclosed' \in [Workers -> SUBSET (1..enrolled)],
         output' \in [Workers -> -1..created],
         keyid' \in Keys, ciphertexts' \subseteq Ciphertexts,
         text_to_decrypt' \in [Workers -> Ciphertexts \cup {NoText}],
         wiped' \subseteq {"credentials", "keyid"}
  PROVE  IInv'
<1>1. TypeOK'
  BY RespondKeeps DEF IInv, TypeOK, Pairs, Keys, server
<1>2. Halves'
  <2>1. Whole(credentials)' /\ \A u \in Workers : unclosed'[u] \subseteq alone'
    BY DEF IInv, Halves, Whole
  <2>2. \A u \in Workers : Whole(answer'[u])
    BY RespondKeeps, NothingHeld DEF IInv, Halves
  <2> QED BY <2>1, <2>2 DEF Halves, Whole
<1> QED BY <1>1, <1>2, RespondKeeps DEF IInv

LEMMA OutputReset ==
  ASSUME IInv, NEW w \in Workers, Finish(w)
  PROVE  Respond(w) /\ output' \in [Workers -> -1..created]
BY NothingHeld DEF Finish, IInv, TypeOK

THEOREM InitHolds == Init => IInv
<1> SUFFICES ASSUME Init PROVE IInv
  OBVIOUS
<1>1. enrolled = 0 /\ created = 0 /\ -1 \in -1..0 /\ 0 \in -1..0
  BY DEF Init
<1>2. NoPair \in Pairs /\ Pair(0) \in Pairs /\ NoKey \in Keys /\ Key(0, FALSE) \in Keys
  BY <1>1 DEF NoPair, Pair, NoKey, Key, Pairs, Keys
<1>3. Whole(NoPair) /\ Whole(Pair(0))
  BY DEF NoPair, Pair, Whole
<1>4. TypeOK
  <2>1. enrolled \in 0..MaxEnrolled /\ created \in 0..MaxCreated /\ -1 \in -1..created
    BY <1>1, BoundsAssumption
  <2>2. /\ pc \in [Workers -> Steps] /\ command \in [Workers -> Commands \cup {NoCommand}]
        /\ answer \in [Workers -> Pairs] /\ unclosed \in [Workers -> SUBSET (1..enrolled)]
        /\ output \in [Workers -> -1..created]
        /\ pair \in [Workers -> Pairs] /\ key \in [Workers -> Keys]
        /\ text_to_decrypt \in [Workers -> Ciphertexts \cup {NoText}]
    BY <1>2, <2>1 DEF Init, Steps
  <2>3. /\ same_tree \in BOOLEAN /\ credentials \in Pairs /\ keyid \in Keys
        /\ ciphertexts \subseteq Ciphertexts
        /\ wiped \subseteq {"credentials", "keyid"} /\ alone \subseteq 1..enrolled
    BY <1>2 DEF Init
  <2> QED BY <2>1, <2>2, <2>3 DEF TypeOK
<1>5. Halves /\ CredPairs
  BY <1>3 DEF Init, Halves, CredPairs
<1> QED BY <1>4, <1>5 DEF IInv

LEMMA AccessKeeps ==
  ASSUME IInv, NEW w \in Workers, Access(w)
  PROVE  IInv'
<1>1. /\ UNCHANGED <<same_tree, server, data, ciphertexts, lua, client, wiped>>
      /\ output' = [output EXCEPT ![w] = -1]
      /\ text_to_decrypt' \in [Workers -> Ciphertexts \cup {NoText}]
  BY DEF Access, AccessEnroll, AccessClient, AccessDecrypt, Receive, IInv, TypeOK
<1>2. \E c \in Commands, s \in {"curl", "credentials"} :
        command' = [command EXCEPT ![w] = c] /\ pc' = [pc EXCEPT ![w] = s]
  BY DEF Access, AccessEnroll, AccessClient, AccessDecrypt, Receive, Goto, Commands
<1>3. TypeOK'
  BY <1>1, <1>2, NothingHeld DEF IInv, TypeOK, Steps, Pairs, Keys, server, data, lua, client
<1>4. Halves' /\ CredPairs'
  BY <1>1 DEF IInv, Halves, CredPairs, Whole, data, lua, client
<1> QED BY <1>3, <1>4 DEF IInv

LEMMA GrantedKeeps ==
  ASSUME IInv, NEW w \in Workers, Granted(w)
  PROVE  /\ enrolled' \in 0..MaxEnrolled
         /\ Pairs \subseteq Pairs' /\ 1..enrolled \subseteq 1..enrolled'
         /\ answer' \in [Workers -> Pairs']
         /\ alone \subseteq alone' /\ alone' \subseteq 1..enrolled'
         /\ \A u \in Workers : Whole(answer[u])'
<1>1. enrolled \in Nat
  BY NothingHeld
<1>2. enrolled' \in 0..MaxEnrolled /\ enrolled <= enrolled'
  BY <1>1, BoundsAssumption DEF Granted, IInv, TypeOK
<1>3. Pairs \subseteq Pairs' /\ 1..enrolled \subseteq 1..enrolled'
  BY <1>1, <1>2, GrantsGrow, BoundsAssumption DEF Pairs
<1>4. CASE UNCHANGED <<enrolled, answer, alone>>
  BY <1>2, <1>3, <1>4 DEF IInv, TypeOK, Halves, Whole
<1>5. CASE /\ enrolled' = enrolled + 1 /\ UNCHANGED alone
           /\ answer' = [answer EXCEPT ![w] = Pair(enrolled + 1)]
  <2>1. Pair(enrolled + 1) \in Pairs' /\ Whole(Pair(enrolled + 1))
    BY <1>1, <1>5 DEF Pair, Pairs, Whole
  <2>2. answer' \in [Workers -> Pairs']
    BY <1>3, <1>5, <2>1 DEF IInv, TypeOK
  <2>3. \A u \in Workers : Whole(answer'[u])
    BY <1>5, <2>1 DEF IInv, TypeOK, Halves
  <2> QED BY <1>2, <1>3, <1>5, <2>2, <2>3 DEF IInv, TypeOK, Whole
<1>6. CASE /\ enrolled' = enrolled + 1 /\ alone' = alone \cup {enrolled + 1}
           /\ answer' = [answer EXCEPT ![w] = [appid |-> enrolled + 1, apikey |-> -1]]
  <2> DEFINE half == [appid |-> enrolled + 1, apikey |-> -1]
  <2>1. half \in Pairs' /\ half.appid \in alone'
    BY <1>1, <1>6 DEF Pairs
  <2>2. answer' \in [Workers -> Pairs']
    BY <1>3, <1>6, <2>1 DEF IInv, TypeOK
  <2>3. \A u \in Workers : answer'[u] = half \/ answer'[u] = answer[u]
    BY <1>6 DEF IInv, TypeOK
  <2>4. \A u \in Workers : Whole(answer[u])'
    BY <1>6, <2>1, <2>3 DEF IInv, Halves, Whole
  <2>5. alone' \subseteq 1..enrolled'
    BY <1>1, <1>3, <1>6 DEF IInv, TypeOK
  <2> QED BY <1>2, <1>3, <1>6, <2>2, <2>4, <2>5
<1> QED BY <1>4, <1>5, <1>6 DEF Granted

LEMMA EnrollKeeps ==
  ASSUME IInv, NEW w \in Workers,
         EnrollCurl(w) \/ EnrollOpen(w) \/ EnrollWrite(w) \/ EnrollRaises(w) \/ Collect(w)
  PROVE  IInv'
<1>1. CASE EnrollCurl(w)
  <2>1. Granted(w) /\ pc' = [pc EXCEPT ![w] = "open"]
        /\ UNCHANGED <<same_tree, created, data, ciphertexts, command, unclosed, output,
                       client, text_to_decrypt, wiped>>
    BY <1>1 DEF EnrollCurl, Goto
  <2>2. unclosed' \in [Workers -> SUBSET (1..enrolled')]
    BY <2>1, GrantedKeeps DEF IInv, TypeOK
  <2>3. TypeOK'
    BY <2>1, <2>2, GrantedKeeps DEF IInv, TypeOK, Steps, Keys, data, client
  <2>4. Halves' /\ CredPairs'
    BY <2>1, GrantedKeeps DEF IInv, Halves, CredPairs, Whole, data, client
  <2> QED BY <2>3, <2>4 DEF IInv
<1>2. CASE EnrollOpen(w)
  <2>1. /\ UNCHANGED <<same_tree, server, keyid, ciphertexts, unclosed, output, client,
                       text_to_decrypt, wiped, alone>>
        /\ credentials' \in {NoPair, credentials}
        /\ answer' = [answer EXCEPT ![w] = NoPair] \/ answer' = answer
        /\ \E s \in Steps : pc' = [pc EXCEPT ![w] = s]
        /\ command' \in [Workers -> Commands \cup {NoCommand}]
    BY <1>2 DEF EnrollOpen, Goto, IInv, TypeOK, Steps, Commands
  <2>2. pc' \in [Workers -> Steps] /\ answer' \in [Workers -> Pairs] /\ credentials' \in Pairs
    BY <2>1, NothingHeld DEF IInv, TypeOK
  <2>3. TypeOK'
    BY <2>1, <2>2 DEF IInv, TypeOK, Pairs, Keys, server, client
  <2>4. Halves' /\ CredPairs'
    BY <2>1, NothingHeld DEF IInv, TypeOK, Halves, CredPairs, Whole, client
  <2> QED BY <2>3, <2>4 DEF IInv
<1>3. CASE EnrollWrite(w)
  <2>1. /\ UNCHANGED <<same_tree, server, keyid, ciphertexts, unclosed, output, client,
                       text_to_decrypt, alone>>
        /\ credentials' = answer[w] /\ answer' = [answer EXCEPT ![w] = NoPair]
        /\ wiped' = wiped \ {"credentials"}
        /\ pc' = [pc EXCEPT ![w] = "credentials"]
        /\ command' = [command EXCEPT ![w] = "GenerateQuote"]
    BY <1>3 DEF EnrollWrite, Goto
  <2>2. TypeOK'
    BY <2>1, NothingHeld DEF IInv, TypeOK, Steps, Commands, Pairs, Keys, server, client
  <2>3. Halves' /\ CredPairs'
    BY <2>1, NothingHeld DEF IInv, TypeOK, Halves, CredPairs, Whole, client
  <2> QED BY <2>2, <2>3 DEF IInv
<1>4. CASE EnrollRaises(w)
  <2>1. Respond(w) /\ output' \in [Workers -> -1..created]
    BY <1>4, OutputReset DEF EnrollRaises
  <2>2. {answer[w].appid} \ {-1} \subseteq alone
    BY <1>4 DEF EnrollRaises, IInv, Halves, Whole
  <2>3. unclosed' = [unclosed EXCEPT ![w] = unclosed[w] \cup ({answer[w].appid} \ {-1})]
    BY <1>4 DEF EnrollRaises
  <2>4. \A u \in Workers : unclosed'[u] \subseteq alone
    BY <2>2, <2>3 DEF IInv, TypeOK, Halves
  <2>5. unclosed' \in [Workers -> SUBSET (1..enrolled)]
    BY <2>3, <2>4 DEF IInv, TypeOK
  <2>6. /\ UNCHANGED <<same_tree, server, data, ciphertexts, text_to_decrypt, alone>>
        /\ wiped' \subseteq {"credentials", "keyid"}
    BY <1>4 DEF EnrollRaises, IInv, TypeOK
  <2> QED BY <2>1, <2>4, <2>5, <2>6, EndKeeps DEF IInv, TypeOK, data
<1>5. CASE Collect(w)
  <2>1. PICK n \in unclosed[w] :
          /\ credentials' = [credentials EXCEPT !.appid = n]
          /\ unclosed' = [unclosed EXCEPT ![w] = unclosed[w] \ {n}]
    BY <1>5 DEF Collect
  <2>2. n \in alone /\ n \in 1..enrolled /\ n \in -1..enrolled
    BY <2>1, NothingHeld DEF IInv, TypeOK, Halves
  <2>3. credentials' \in Pairs /\ credentials'.appid \in alone
    BY <2>1, <2>2 DEF IInv, TypeOK, Pairs
  <2>4. UNCHANGED <<same_tree, server, keyid, ciphertexts, pc, command, answer, output, client,
                    text_to_decrypt, wiped, alone>>
    BY <1>5 DEF Collect
  <2>5. TypeOK'
    BY <2>1, <2>3, <2>4 DEF IInv, TypeOK, Pairs, Keys, server, client
  <2>6. \A u \in Workers : unclosed'[u] \subseteq alone
    BY <2>1 DEF IInv, TypeOK, Halves
  <2>7. Halves' /\ CredPairs'
    BY <2>3, <2>4, <2>6 DEF IInv, Halves, CredPairs, Whole, client
  <2> QED BY <2>5, <2>7 DEF IInv
<1> QED BY <1>1, <1>2, <1>3, <1>4, <1>5

LEMMA ReadKeeps ==
  ASSUME IInv, NEW w \in Workers, ReadCredentials(w) \/ ReadKeyid(w)
  PROVE  IInv'
<1>1. CASE ReadCredentials(w)
  <2>1. /\ pair' = [pair EXCEPT ![w] = pair'[w]]
        /\ pair'[w] \in {Pair(0), NoPair, credentials}
    BY <1>1 DEF ReadCredentials, IInv, TypeOK
  <2>2. pair'[w] \in Pairs /\ Whole(pair'[w])
    BY <2>1, NothingHeld DEF IInv, TypeOK, Halves
  <2>3. TypeOK'
    BY <1>1, <2>1, <2>2 DEF ReadCredentials, Goto, IInv, TypeOK, Steps, Pairs, Keys, server,
                            data, lua
  <2>4. \A u \in Workers : Whole(pair'[u])
    BY <2>1, <2>2 DEF IInv, TypeOK, CredPairs
  <2>5. Halves' /\ CredPairs'
    BY <1>1, <2>4 DEF ReadCredentials, IInv, Halves, CredPairs, Whole, data, lua
  <2> QED BY <2>3, <2>5 DEF IInv
<1>2. CASE ReadKeyid(w)
  <2>1. TypeOK'
    BY <1>2 DEF ReadKeyid, Goto, IInv, TypeOK, Steps, Pairs, Keys, server, data, lua
  <2>2. Halves' /\ CredPairs'
    BY <1>2 DEF ReadKeyid, IInv, Halves, CredPairs, Whole, data, lua
  <2> QED BY <2>1, <2>2 DEF IInv
<1> QED BY <1>1, <1>2

LEMMA CallKeeps ==
  ASSUME IInv, NEW w \in Workers,
         \/ CallGenerateQuote(w) \/ CallListKey(w) \/ CallCreatekey(w)
         \/ CallEncrypt(w) \/ CallDecrypt(w)
  PROVE  IInv'
<1>1. CASE CallGenerateQuote(w) \/ CallListKey(w)
  <2>1. /\ Finish(w)
        /\ UNCHANGED <<same_tree, server, data, ciphertexts, unclosed, text_to_decrypt, wiped,
                       alone>>
    BY <1>1 DEF CallGenerateQuote, CallListKey, CallEnds
  <2> QED BY <2>1, OutputReset, EndKeeps DEF IInv, TypeOK, Halves, data
<1>2. CASE CallCreatekey(w)
  <2>1. created' \in 0..MaxCreated /\ created <= created'
    BY <1>2, NothingHeld, BoundsAssumption DEF CallCreatekey, IInv, TypeOK
  <2>2. Keys \subseteq Keys' /\ -1..created \subseteq -1..created'
    BY <2>1, NothingHeld, GrantsGrow, BoundsAssumption DEF Keys
  <2>3. output' \in [Workers -> -1..created']
    <3>1. CASE created' = created + 1 /\ output' = [output EXCEPT ![w] = created + 1]
      <4>1. created + 1 \in -1..created'
        BY <3>1, NothingHeld
      <4> QED BY <2>2, <3>1, <4>1 DEF IInv, TypeOK
    <3>2. CASE UNCHANGED <<created, output>>
      BY <3>2 DEF IInv, TypeOK
    <3> QED BY <1>2, <3>1, <3>2 DEF CallCreatekey
  <2>4. /\ pc' = [pc EXCEPT ![w] = "keyopen"]
        /\ UNCHANGED <<same_tree, enrolled, data, ciphertexts, command, lua, client,
                       text_to_decrypt, wiped>>
    BY <1>2 DEF CallCreatekey, Goto
  <2>5. TypeOK'
    BY <2>1, <2>2, <2>3, <2>4 DEF IInv, TypeOK, Steps, Pairs, data, lua, client
  <2>6. Halves' /\ CredPairs'
    BY <2>4 DEF IInv, Halves, CredPairs, Whole, data, lua, client
  <2> QED BY <2>5, <2>6 DEF IInv
<1>3. CASE CallEncrypt(w)
  <2>1. /\ Finish(w)
        /\ UNCHANGED <<same_tree, server, data, unclosed, text_to_decrypt, wiped, alone>>
    BY <1>3 DEF CallEncrypt
  <2>2. ciphertexts' \subseteq Ciphertexts
    <3>1. CASE Known(key[w]) /\ \E aad \in Aads :
                 ciphertexts' = ciphertexts \cup {[key |-> key[w].id, aad |-> aad]}
      <4>1. key[w].id \in 0..MaxCreated
        BY <3>1, NothingHeld, BoundsAssumption DEF Known, IInv, TypeOK
      <4>2. \A aad \in Aads : [key |-> key[w].id, aad |-> aad] \in Ciphertexts
        BY <4>1 DEF Ciphertexts
      <4> QED BY <3>1, <4>2 DEF IInv, TypeOK
    <3>2. CASE UNCHANGED ciphertexts
      BY <3>2 DEF IInv, TypeOK
    <3> QED BY <1>3, <3>1, <3>2 DEF CallEncrypt
  <2> QED BY <2>1, <2>2, OutputReset, EndKeeps DEF IInv, TypeOK, Halves, data
<1>4. CASE CallDecrypt(w)
  <2>1. /\ Respond(w)
        /\ UNCHANGED <<same_tree, server, data, ciphertexts, unclosed, text_to_decrypt, wiped,
                       alone>>
    BY <1>4 DEF CallDecrypt
  <2>2. \/ UNCHANGED output
        \/ output' = [output EXCEPT ![w] = key[w].id] /\ key[w].id \in 0..created
    BY <1>4 DEF CallDecrypt, Known
  <2>3. output' \in [Workers -> -1..created]
    BY <2>2, NothingHeld DEF IInv, TypeOK
  <2> QED BY <2>1, <2>3, EndKeeps DEF IInv, TypeOK, Halves, data
<1> QED BY <1>1, <1>2, <1>3, <1>4

LEMMA KeyKeeps ==
  ASSUME IInv, NEW w \in Workers, KeyOpen(w) \/ KeyWrite(w)
  PROVE  IInv'
<1>1. CASE KeyOpen(w) /\ Finish(w) /\ UNCHANGED keyid
  <2>1. UNCHANGED <<same_tree, server, credentials, ciphertexts, unclosed, text_to_decrypt,
                    wiped, alone>>
    BY <1>1 DEF KeyOpen
  <2> QED BY <1>1, <2>1, OutputReset, EndKeeps DEF IInv, TypeOK, Halves
<1>2. CASE KeyOpen(w) /\ keyid' = NoKey /\ Goto(w, "keywrite")
           /\ UNCHANGED <<command, answer, output, client>>
  <2>1. TypeOK'
    BY <1>2, NothingHeld DEF KeyOpen, Goto, IInv, TypeOK, Steps, Pairs, Keys, server, client
  <2>2. Halves' /\ CredPairs'
    BY <1>2 DEF KeyOpen, IInv, Halves, CredPairs, Whole, client
  <2> QED BY <2>1, <2>2 DEF IInv
<1>3. CASE KeyWrite(w)
  <2>1. output[w] \in -1..created
    BY DEF IInv, TypeOK
  <2>2. keyid' \in Keys
    BY <1>3, <2>1 DEF KeyWrite, IInv, TypeOK, Keys, Key
  <2>3. wiped' \subseteq {"credentials", "keyid"}
    BY <1>3 DEF KeyWrite, IInv, TypeOK
  <2>4. /\ Finish(w)
        /\ UNCHANGED <<same_tree, server, credentials, ciphertexts, unclosed, text_to_decrypt,
                       alone>>
    BY <1>3 DEF KeyWrite
  <2> QED BY <2>2, <2>3, <2>4, OutputReset, EndKeeps DEF IInv, TypeOK, Halves
<1> QED BY <1>1, <1>2, <1>3 DEF KeyOpen

LEMMA KilledKeeps ==
  ASSUME IInv, NEW w \in Workers, Killed(w)
  PROVE  IInv'
<1>1. Finish(w) /\ UNCHANGED <<same_tree, server, data, ciphertexts, alone>>
  BY DEF Killed
<1>2. /\ wiped' \subseteq {"credentials", "keyid"}
      /\ text_to_decrypt' \in [Workers -> Ciphertexts \cup {NoText}]
      /\ unclosed' \in [Workers -> SUBSET (1..enrolled)]
      /\ \A u \in Workers : unclosed'[u] \subseteq alone
  BY DEF Killed, IInv, TypeOK, Halves
<1> QED BY <1>1, <1>2, OutputReset, EndKeeps DEF IInv, TypeOK, data

LEMMA StepKeeps == IInv /\ [Next]_vars => IInv'
<1> SUFFICES ASSUME IInv, [Next]_vars PROVE IInv'
  OBVIOUS
<1>1. CASE UNCHANGED vars
  BY <1>1 DEF vars, IInv, TypeOK, Halves, CredPairs, Whole, Pairs, Keys
<1>2. CASE Next
  BY <1>2, AccessKeeps, EnrollKeeps, ReadKeeps, CallKeeps, KeyKeeps, KilledKeeps DEF Next
<1> QED BY <1>1, <1>2

THEOREM Invariance == Spec => []IInv
<1> QED BY InitHolds, StepKeeps, PTL DEF Spec

(* The variables of the plugin have their types in every reachable state.  *)
THEOREM TypeCorrect == Spec => []TypeOK
<1>1. IInv => TypeOK
  BY DEF IInv
<1> QED BY <1>1, Invariance, PTL

(* The halves of two enrollments come together in a client only by an appid *)
(* that the server sent without an apikey.                                 *)
THEOREM OnePair == Spec => []CredPairs
<1>1. IInv => CredPairs
  BY DEF IInv
<1> QED BY <1>1, Invariance, PTL

(* FilesExplained is inductive beside TypeOK: a worker that leaves the step *)
(* behind a truncation has written something or is noted in wiped, and     *)
(* wiped forgets a file only when something is written to it.              *)
LEMMA CredentialsExplained ==
  ASSUME TypeOK, FilesExplained, NEW w \in Workers,
         EnrollOpen(w) \/ EnrollWrite(w) \/ EnrollRaises(w) \/ Collect(w)
  PROVE  FilesExplained'
<1>1. CASE EnrollOpen(w)
  <2>1. pc[w] = "open" /\ UNCHANGED <<keyid, wiped>>
    BY <1>1 DEF EnrollOpen
  <2>2. \A u \in Workers : pc[u] \in {"write", "keywrite"} => pc'[u] = pc[u]
    BY <1>1 DEF EnrollOpen, Goto, TypeOK
  <2>3. pc'[w] = "write" \/ UNCHANGED credentials
    BY <1>1 DEF EnrollOpen, Goto, TypeOK
  <2> QED BY <2>1, <2>2, <2>3 DEF FilesExplained
<1>2. CASE EnrollWrite(w)
  <2>1. credentials'.apikey # -1
    BY <1>2 DEF EnrollWrite
  <2>2. \A u \in Workers : pc[u] = "keywrite" => pc'[u] = pc[u]
    BY <1>2 DEF EnrollWrite, Goto, TypeOK
  <2> QED BY <1>2, <2>1, <2>2 DEF EnrollWrite, FilesExplained
<1>3. CASE EnrollRaises(w)
  <2>1. \A u \in Workers : pc[u] = "keywrite" => pc'[u] = pc[u]
    BY <1>3 DEF EnrollRaises, Finish, Respond, Goto, TypeOK
  <2> QED BY <1>3, <2>1 DEF EnrollRaises, data, FilesExplained
<1>4. CASE Collect(w)
  <2>1. credentials'.apikey = credentials.apikey /\ UNCHANGED <<keyid, pc, wiped>>
    BY <1>4 DEF Collect, TypeOK, Pairs
  <2> QED BY <2>1 DEF FilesExplained
<1> QED BY <1>1, <1>2, <1>3, <1>4

LEMMA KeyExplained ==
  ASSUME TypeOK, FilesExplained, NEW w \in Workers, KeyOpen(w) \/ KeyWrite(w)
  PROVE  FilesExplained'
<1>1. CASE KeyOpen(w)
  <2>1. pc[w] = "keyopen" /\ UNCHANGED <<credentials, wiped>>
    BY <1>1 DEF KeyOpen
  <2>2. \A u \in Workers : pc[u] \in {"write", "keywrite"} => pc'[u] = pc[u]
    BY <1>1 DEF KeyOpen, Finish, Respond, Goto, TypeOK
  <2>3. (keyid' = NoKey /\ pc'[w] = "keywrite") \/ UNCHANGED keyid
    BY <1>1 DEF KeyOpen, Goto, TypeOK
  <2> QED BY <2>1, <2>2, <2>3 DEF FilesExplained
<1>2. CASE KeyWrite(w)
  <2>1. \A u \in Workers : pc[u] = "write" => pc'[u] = pc[u]
    BY <1>2 DEF KeyWrite, Finish, Respond, Goto, TypeOK
  <2>2. keyid' = NoKey => "keyid" \in wiped'
    BY <1>2 DEF KeyWrite, Key, NoKey
  <2>3. UNCHANGED credentials /\ ("credentials" \in wiped => "credentials" \in wiped')
    BY <1>2 DEF KeyWrite
  <2> QED BY <2>1, <2>2, <2>3 DEF FilesExplained
<1> QED BY <1>1, <1>2

LEMMA KilledExplained ==
  ASSUME TypeOK, FilesExplained, NEW w \in Workers, Killed(w)
  PROVE  FilesExplained'
<1>1. UNCHANGED <<credentials, keyid>>
  BY DEF Killed, data
<1>2. \A u \in Workers : u # w => pc'[u] = pc[u]
  BY DEF Killed, Finish, Respond, Goto, TypeOK
<1>3. /\ wiped \subseteq wiped'
      /\ pc[w] = "write" => "credentials" \in wiped'
      /\ pc[w] = "keywrite" => "keyid" \in wiped'
  BY DEF Killed
<1> QED BY <1>1, <1>2, <1>3 DEF FilesExplained

(* The steps that open and write no file leave workers that do where they are. *)
LEMMA OthersExplained ==
  ASSUME TypeOK, FilesExplained, NEW w \in Workers,
         \/ Access(w) \/ EnrollCurl(w) \/ ReadCredentials(w) \/ ReadKeyid(w)
         \/ CallGenerateQuote(w) \/ CallListKey(w) \/ CallCreatekey(w)
         \/ CallEncrypt(w) \/ CallDecrypt(w)
  PROVE  FilesExplained'
<1>1. UNCHANGED <<credentials, keyid, wiped>>
  BY DEF Access, AccessEnroll, AccessClient, AccessDecrypt, Receive, EnrollCurl,
         ReadCredentials, ReadKeyid, CallGenerateQuote, CallListKey, CallEnds,
         CallCreatekey, CallEncrypt, CallDecrypt, data
<1>2. pc[w] \notin {"write", "keywrite"} /\ \E s : pc' = [pc EXCEPT ![w] = s]
  <2>1. CASE Access(w)
    BY <2>1 DEF Access, AccessEnroll, AccessClient, AccessDecrypt, Receive, Goto
  <2>2. CASE EnrollCurl(w) \/ ReadCredentials(w) \/ ReadKeyid(w) \/ CallCreatekey(w)
    BY <2>2 DEF EnrollCurl, ReadCredentials, ReadKeyid, CallCreatekey, Goto
  <2>3. CASE CallGenerateQuote(w) \/ CallListKey(w) \/ CallEncrypt(w) \/ CallDecrypt(w)
    BY <2>3 DEF CallGenerateQuote, CallListKey, CallEnds, CallEncrypt, CallDecrypt, Finish, Respond, Goto
  <2> QED BY <2>1, <2>2, <2>3
<1>3. \A u \in Workers : pc[u] \in {"write", "keywrite"} => pc'[u] = pc[u]
  BY <1>2 DEF TypeOK
<1> QED BY <1>1, <1>3 DEF FilesExplained

(* The files are empty only behind a truncation whose writer is still at   *)
(* work, was killed, raised or had no answer of the server.                *)
THEOREM FilesAreExplained == Spec => []FilesExplained
<1>1. Init => FilesExplained
  BY DEF Init, FilesExplained, Pair, NoPair, Key, NoKey
<1>2. TypeOK /\ FilesExplained /\ [Next]_vars => FilesExplained'
  <2> SUFFICES ASSUME TypeOK, FilesExplained, [Next]_vars PROVE FilesExplained'
    OBVIOUS
  <2>1. CASE UNCHANGED vars
    BY <2>1 DEF vars, FilesExplained
  <2>2. CASE Next
    BY <2>2, CredentialsExplained, KeyExplained, KilledExplained, OthersExplained DEF Next
  <2> QED BY <2>1, <2>2
<1> QED BY <1>1, <1>2, TypeCorrect, PTL DEF Spec
=============================================================================
