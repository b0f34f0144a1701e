----------------------------- MODULE EhsmPlugin -----------------------------
(***************************************************************************)
(* The api-version plugin (kong/plugins/api-version): a request's API      *)
(* header names a command for an eHSM server.  The Lua handler enrolls     *)
(* with curl and keeps the application's credentials and the key id in two *)
(* text files; for the other commands it runs a Python client that reads   *)
(* these files and calls the server.  io.popen blocks, so a worker has one *)
(* request at a time, but all workers share the files, and nothing locks   *)
(* them.  The Lua side writes under /home/wydx/kong; some of the clients   *)
(* read /home/wydx/kong_coco, which may be the same tree or a checkout     *)
(* with the committed files.                                               *)
(***************************************************************************)
EXTENDS Integers, FiniteSets

CONSTANTS
  Workers,      \* the nginx worker processes
  MaxEnrolled,  \* bound: enrollments the server grants
  MaxCreated,   \* bound: keys the server creates
  MaxEncrypted  \* bound: texts the server encrypts

ASSUME BoundsAssumption ==
  MaxEnrolled \in Nat /\ MaxCreated \in Nat /\ MaxEncrypted \in Nat

(***************************************************************************)
(* Credentials are numbered by enrollment, 0 being the committed pair; a   *)
(* pair that a client holds names the enrollment of its appid and that of  *)
(* its apikey.  Key ids are numbered likewise; "tail" says that the line   *)
(* holds other text than the id: what the create client prints behind it.  *)
(***************************************************************************)
Pair(n)   == [appid |-> n, apikey |-> n]
NoPair    == [appid |-> -1, apikey |-> -1]        \* None, None
Key(n, t) == [id |-> n, tail |-> t]
NoKey     == Key(-1, FALSE)                       \* an empty line
NoText    == [key |-> -1, aad |-> "none"]
Challenge == "challenge"
Aads      == {Challenge, "other"}

VARIABLES
  same_tree,    \* kong_coco and kong are one tree
  enrolled,     \* the server's enrollments
  created,      \* the server's keys
  credentials,  \* appid_apikey.txt of the kong tree; an absent line is -1
  keyid,        \* keyid.txt
  ciphertexts,  \* what Encrypt answered so far
  pc,           \* pc[w]: what worker w is at
  command,      \* command[w]: the API header of its request, if it has one
  answer,       \* answer[w]: the credentials the handler found in curl's output
  unclosed,     \* unclosed[w]: the appids in buffers of files that w left open
  output,       \* output[w]: the key id the handler has read, -1 if none
  pair,         \* pair[w]: the credentials its client holds
  key,          \* key[w]: the key id its client holds
  text_to_decrypt,  \* text_to_decrypt[w]: a global of the worker's Lua state
  wiped,        \* history: the last writer of these files gave up behind its truncation
  alone         \* history: the appids that the server sent without an apikey

vars == <<same_tree, enrolled, created, credentials, keyid, ciphertexts, pc, command,
          answer, unclosed, output, pair, key, text_to_decrypt, wiped, alone>>

server == <<enrolled, created>>
lua    == <<answer, unclosed, alone>>
data   == <<credentials, keyid>>
client == <<pair, key>>

Commands == {"Enroll", "GenerateQuote", "Createkey", "ListKey", "Encrypt", "Decrypt"}
NoCommand == "none"
Steps == {"idle", "curl", "open", "write", "credentials", "keyid", "call", "keyopen",
          "keywrite"}
Ciphertexts == [key : 0..MaxCreated, aad : Aads]

Init ==
  /\ same_tree \in BOOLEAN
  /\ enrolled = 0 /\ created = 0
  /\ credentials = Pair(0) /\ keyid = Key(0, FALSE)
  /\ ciphertexts = {}
  /\ pc = [w \in Workers |-> "idle"]
  /\ command = [w \in Workers |-> NoCommand]
  /\ answer = [w \in Workers |-> NoPair]
  /\ unclosed = [w \in Workers |-> {}]
  /\ output = [w \in Workers |-> -1]
  /\ pair = [w \in Workers |-> NoPair]
  /\ key = [w \in Workers |-> NoKey]
  /\ text_to_decrypt = [w \in Workers |-> NoText]
  /\ wiped = {} /\ alone = {}

Goto(w, step) == pc' = [pc EXCEPT ![w] = step]

(* The request ends, and with it the client process if one ran; only what  *)
(* Decrypt got back outlives it, in the response.                          *)
Respond(w) ==
  /\ Goto(w, "idle")
  /\ command' = [command EXCEPT ![w] = NoCommand]
  /\ answer' = [answer EXCEPT ![w] = NoPair]
  /\ pair' = [pair EXCEPT ![w] = NoPair]
  /\ key' = [key EXCEPT ![w] = NoKey]

Finish(w) == Respond(w) /\ output' = [output EXCEPT ![w] = -1]

(***************************************************************************)
(* access: the command the header names.  Encrypt and Decrypt concatenate  *)
(* their headers to a shell command, which raises on an absent one; but    *)
(* text_to_decrypt is a global, so that a Decrypt without that header goes *)
(* on with the one of an earlier request of the worker.                    *)
(***************************************************************************)
Receive(w, c) ==
  /\ pc[w] = "idle"
  /\ command' = [command EXCEPT ![w] = c]
  /\ output' = [output EXCEPT ![w] = -1]
  /\ UNCHANGED <<same_tree, server, data, ciphertexts, lua, client, wiped>>

(* A duplicated key header ends Enroll early, not the quote behind it.     *)
AccessEnroll(w) ==
  /\ \/ Receive(w, "Enroll") /\ Goto(w, "curl")
     \/ Receive(w, "GenerateQuote") /\ Goto(w, "credentials")
  /\ UNCHANGED text_to_decrypt

AccessClient(w, c) ==
  /\ Receive(w, c)
  /\ Goto(w, "credentials")
  /\ UNCHANGED text_to_decrypt

AccessDecrypt(w) ==
  /\ Receive(w, "Decrypt")
  /\ \/ \E c \in ciphertexts :
          /\ text_to_decrypt' = [text_to_decrypt EXCEPT ![w] = c]
          /\ Goto(w, "credentials")
     \/ /\ text_to_decrypt[w] # NoText
        /\ UNCHANGED text_to_decrypt
        /\ Goto(w, "credentials")

Access(w) ==
  \/ AccessEnroll(w)
  \/ \E c \in {"GenerateQuote", "Createkey", "ListKey", "Encrypt"} : AccessClient(w, c)
  \/ AccessDecrypt(w)

(***************************************************************************)
(* Enroll: curl, whose output may have no credentials, or an appid alone   *)
(* (an apikey alone is worth none); io.open truncates; the two lines leave *)
(* the buffer together at close, and the quote follows.  The concatenation *)
(* of what is absent raises: the file stays empty and open, and an appid   *)
(* is in its buffer when it was there.  The collector closes the file some *)
(* time while Lua runs, which writes that line at the start of the file,   *)
(* whatever the file holds by then.                                        *)
(***************************************************************************)
Granted(w) ==
  \/ /\ enrolled < MaxEnrolled
     /\ enrolled' = enrolled + 1
     /\ \/ /\ answer' = [answer EXCEPT ![w] = Pair(enrolled + 1)]
           /\ UNCHANGED alone
        \/ /\ answer' = [answer EXCEPT ![w] = [appid |-> enrolled + 1, apikey |-> -1]]
           /\ alone' = alone \cup {enrolled + 1}
  \/ UNCHANGED <<enrolled, answer, alone>>

\* Mutant: the file is opened, and emptied, before the server is asked.
EnrollCurlTruncates(w) ==
  /\ pc[w] = "curl"
  /\ Granted(w)
  /\ credentials' = NoPair
  /\ Goto(w, "open")
  /\ UNCHANGED <<same_tree, created, keyid, ciphertexts, command, unclosed, output, client,
                 text_to_decrypt, wiped>>
EnrollCurl(w) ==
  /\ pc[w] = "curl"
  /\ Granted(w)
  /\ Goto(w, "open")
  /\ UNCHANGED <<same_tree, created, data, ciphertexts, command, unclosed, output, client,
                 text_to_decrypt, wiped>>

(* A file that does not open is passed over.                               *)
EnrollOpen(w) ==
  /\ pc[w] = "open"
  /\ \/ /\ credentials' = NoPair
        /\ Goto(w, "write")
        /\ UNCHANGED <<command, answer>>
     \/ /\ Goto(w, "credentials")
        /\ command' = [command EXCEPT ![w] = "GenerateQuote"]
        /\ answer' = [answer EXCEPT ![w] = NoPair]
        /\ UNCHANGED credentials
  /\ UNCHANGED <<same_tree, server, keyid, ciphertexts, unclosed, output, client,
                 text_to_decrypt, wiped, alone>>

\* Mutant: the lines leave the buffer one by one.
EnrollWriteLines(w) ==
  /\ pc[w] = "write" /\ answer[w].apikey # -1
  /\ \/ /\ credentials' = [credentials EXCEPT !.appid = answer[w].appid]
        /\ UNCHANGED <<pc, command, answer, wiped>>
     \/ /\ credentials' = answer[w]
        /\ wiped' = wiped \ {"credentials"}
        /\ command' = [command EXCEPT ![w] = "GenerateQuote"]
        /\ answer' = [answer EXCEPT ![w] = NoPair]
        /\ Goto(w, "credentials")
  /\ UNCHANGED <<same_tree, server, keyid, ciphertexts, unclosed, output, client,
                 text_to_decrypt, alone>>
EnrollWrite(w) ==
  /\ pc[w] = "write" /\ answer[w].apikey # -1
  /\ credentials' = answer[w]
  /\ wiped' = wiped \ {"credentials"}
  /\ command' = [command EXCEPT ![w] = "GenerateQuote"]
  /\ answer' = [answer EXCEPT ![w] = NoPair]
  /\ Goto(w, "credentials")
  /\ UNCHANGED <<same_tree, server, keyid, ciphertexts, unclosed, output, client,
                 text_to_decrypt, alone>>

EnrollRaises(w) ==
  /\ pc[w] = "write" /\ answer[w].apikey = -1
  /\ unclosed' = [unclosed EXCEPT ![w] = @ \cup ({answer[w].appid} \ {-1})]
  /\ wiped' = wiped \cup {"credentials"}
  /\ Finish(w)
  /\ UNCHANGED <<same_tree, server, data, ciphertexts, text_to_decrypt, alone>>

(* No Lua runs in a worker that waits for its client.                      *)
Collect(w) ==
  /\ pc[w] \notin {"keyid", "call"}
  /\ \E n \in unclosed[w] :
       /\ credentials' = [credentials EXCEPT !.appid = n]
       /\ unclosed' = [unclosed EXCEPT ![w] = @ \ {n}]
  /\ UNCHANGED <<same_tree, server, keyid, ciphertexts, pc, command, answer, output, client,
                 text_to_decrypt, wiped, alone>>

(***************************************************************************)
(* The Python clients.  Each reads the credentials (None twice if the file *)
(* has not two lines) from the tree its path names, the encrypt and the    *)
(* decrypt client the key id as well, and then calls the server.           *)
(***************************************************************************)
ReadsCoco(c) == c \in {"GenerateQuote", "Createkey"}

ReadCredentials(w) ==
  /\ pc[w] = "credentials"
  /\ pair' = [pair EXCEPT ![w] =
                 IF ReadsCoco(command[w]) /\ ~same_tree THEN Pair(0)
                 ELSE IF credentials.apikey = -1 THEN NoPair ELSE credentials]
  /\ Goto(w, IF command[w] \in {"Encrypt", "Decrypt"} THEN "keyid" ELSE "call")
  /\ UNCHANGED <<same_tree, server, data, ciphertexts, command, lua, output, key,
                 text_to_decrypt, wiped>>

ReadKeyid(w) ==
  /\ pc[w] = "keyid"
  /\ key' = [key EXCEPT ![w] = keyid]
  /\ Goto(w, "call")
  /\ UNCHANGED <<same_tree, server, data, ciphertexts, command, lua, output, pair,
                 text_to_decrypt, wiped>>

(* prepare_params signs the sorted parameters with the apikey: the server  *)
(* accepts them when the apikey is the one it issued with the appid.  A    *)
(* key id it has not issued it does not know.                              *)
Authentic(p) == p.appid = p.apikey /\ p.appid \in 0..enrolled
Known(k)     == ~k.tail /\ k.id \in 0..created

CallEnds(w, c) ==
  /\ pc[w] = "call" /\ command[w] = c
  /\ Finish(w)
  /\ UNCHANGED <<same_tree, server, data, ciphertexts, unclosed, text_to_decrypt, wiped,
                 alone>>

(* The quote ends here whatever the answer: base64 is not defined in the   *)
(* handler's module, so that it raises before it writes the request of the *)
(* attestation service.  ListKey only shows what the client printed.       *)
CallGenerateQuote(w) == CallEnds(w, "GenerateQuote")
CallListKey(w) == CallEnds(w, "ListKey")

\* Mutant: an id is printed, and kept, whether or not the server made the key.
CallCreatekeyUnchecked(w) ==
  /\ pc[w] = "call" /\ command[w] = "Createkey"
  /\ created' = IF Authentic(pair[w]) /\ created < MaxCreated THEN created + 1 ELSE created
  /\ output' = [output EXCEPT ![w] = created + 1]
  /\ Goto(w, "keyopen")
  /\ UNCHANGED <<same_tree, enrolled, data, ciphertexts, command, lua, client,
                 text_to_decrypt, wiped>>
CallCreatekey(w) ==
  /\ pc[w] = "call" /\ command[w] = "Createkey"
  /\ \/ /\ Authentic(pair[w]) /\ created < MaxCreated
        /\ created' = created + 1
        /\ output' = [output EXCEPT ![w] = created + 1]
     \/ UNCHANGED <<created, output>>
  /\ Goto(w, "keyopen")
  /\ UNCHANGED <<same_tree, enrolled, data, ciphertexts, command, lua, client,
                 text_to_decrypt, wiped>>

CallEncrypt(w) ==
  /\ pc[w] = "call" /\ command[w] = "Encrypt"
  /\ \/ /\ Authentic(pair[w]) /\ Known(key[w]) /\ Cardinality(ciphertexts) < MaxEncrypted
        /\ \E aad \in Aads :
             ciphertexts' = ciphertexts \cup {[key |-> key[w].id, aad |-> aad]}
     \/ UNCHANGED ciphertexts
  /\ Finish(w)
  /\ UNCHANGED <<same_tree, server, data, unclosed, text_to_decrypt, wiped, alone>>

(* The decrypt client gives the server a constant for the aad, whatever    *)
(* its argument; output is the key of the text it gets back, -1 if refused.*)
CallDecrypt(w) ==
  /\ pc[w] = "call" /\ command[w] = "Decrypt"
  /\ \/ /\ Authentic(pair[w]) /\ Known(key[w])
        /\ text_to_decrypt[w] = [key |-> key[w].id, aad |-> Challenge]
        /\ output' = [output EXCEPT ![w] = key[w].id]
     \/ UNCHANGED output
  /\ Respond(w)
  /\ UNCHANGED <<same_tree, server, data, ciphertexts, unclosed, text_to_decrypt, wiped,
                 alone>>

(***************************************************************************)
(* Createkey writes what the client printed over keyid.txt.  The client    *)
(* prints its working directory behind the id, and the handler takes only  *)
(* the line ends out.  If the client printed nothing, a line end is all    *)
(* there is to write: of a line another worker wrote since the truncation  *)
(* it overwrites one character, which leaves no id of the server.          *)
(***************************************************************************)
KeyOpen(w) ==
  /\ pc[w] = "keyopen"
  /\ \/ /\ keyid' = NoKey /\ Goto(w, "keywrite")
        /\ UNCHANGED <<command, answer, output, client>>
     \/ Finish(w) /\ UNCHANGED keyid
  /\ UNCHANGED <<same_tree, server, credentials, ciphertexts, unclosed, text_to_decrypt,
                 wiped, alone>>

KeyWrite(w) ==
  /\ pc[w] = "keywrite"
  /\ keyid' = IF output[w] = -1 THEN keyid ELSE Key(output[w], TRUE)
  /\ wiped' = IF output[w] = -1 THEN wiped \cup {"keyid"} ELSE wiped \ {"keyid"}
  /\ Finish(w)
  /\ UNCHANGED <<same_tree, server, credentials, ciphertexts, unclosed, text_to_decrypt,
                 alone>>

(***************************************************************************)
(* A worker may be killed, with what its buffers hold; the one that        *)
(* replaces it has a fresh Lua state.                                      *)
(***************************************************************************)
Killed(w) ==
  /\ Finish(w)
  /\ unclosed' = [unclosed EXCEPT ![w] = {}]
  /\ wiped' = wiped \cup (IF pc[w] = "write" THEN {"credentials"} ELSE {})
                    \cup (IF pc[w] = "keywrite" THEN {"keyid"} ELSE {})
  /\ text_to_decrypt' = [text_to_decrypt EXCEPT ![w] = NoText]
  /\ UNCHANGED <<same_tree, server, data, ciphertexts, alone>>

Next == \E w \in Workers :
  \/ Access(w)
  \/ EnrollCurl(w) \/ EnrollOpen(w) \/ EnrollWrite(w) \/ EnrollRaises(w)
  \/ Collect(w)
  \/ ReadCredentials(w) \/ ReadKeyid(w)
  \/ CallGenerateQuote(w) \/ CallListKey(w) \/ CallCreatekey(w)
  \/ CallEncrypt(w) \/ CallDecrypt(w)
  \/ KeyOpen(w) \/ KeyWrite(w)
  \/ Killed(w)

Spec == Init /\ [][Next]_vars

(***************************************************************************)
(* Properties.                                                             *)
(***************************************************************************)
Pairs == [appid : -1..enrolled, apikey : -1..enrolled]
Keys  == [id : -1..created, tail : BOOLEAN]

(* The variables have their types; nothing names an enrollment or a key    *)
(* that the server has not granted.                                        *)
TypeOK ==
  /\ same_tree \in BOOLEAN
  /\ enrolled \in 0..MaxEnrolled /\ created \in 0..MaxCreated
  /\ credentials \in Pairs /\ keyid \in Keys
  /\ ciphertexts \subseteq Ciphertexts
  /\ pc \in [Workers -> Steps] /\ command \in [Workers -> Commands \cup {NoCommand}]
  /\ answer \in [Workers -> Pairs]
  /\ unclosed \in [Workers -> SUBSET (1..enrolled)]
  /\ output \in [Workers -> -1..created]
  /\ pair \in [Workers -> Pairs] /\ key \in [Workers -> Keys]
  /\ text_to_decrypt \in [Workers -> Ciphertexts \cup {NoText}]
  /\ wiped \subseteq {"credentials", "keyid"} /\ alone \subseteq 1..enrolled

Whole(p) == p.appid = p.apikey \/ p.appid \in alone

(* ehsm.lua:116-123 and the clients' reads: however many workers enroll at *)
(* once, a client has the appid and the apikey of one enrollment, or none, *)
(* unless its appid is one that the server sent without an apikey: that    *)
(* one is written late, over a pair that another worker wrote since.       *)
CredPairs == \A w \in Workers : Whole(pair[w])

(* ehsm.lua:116,188: credentials and key id are missing only while a       *)
(* worker is between the truncation and the write, or after one that got   *)
(* no further, or whose server call failed.                                *)
FilesExplained ==
  /\ credentials.apikey = -1 =>
       "credentials" \in wiped \/ \E w \in Workers : pc[w] = "write"
  /\ keyid = NoKey => "keyid" \in wiped \/ \E w \in Workers : pc[w] = "keywrite"
=============================================================================
