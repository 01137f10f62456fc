----------------------------- MODULE DnsService -----------------------------
(***************************************************************************)
(* What the DNS relay promises, seen from its clients and from the proxy:  *)
(* each question it takes up is answered at most once, and both the answer *)
(* and the note to the proxy are about that question and its client.  The  *)
(* relay numbers the questions, starts again after SeqSpace of them, and   *)
(* may take two of the same number for one another.                        *)
(***************************************************************************)
EXTENDS Integers, Sequences, FiniteSets

CONSTANTS
  Client,    \* the clients, by their address
  Name,      \* the names they ask for
  Rule,      \* how a name matches the rules: "exact", "part" of it does, "none"
  SeqSpace,  \* sequence numbers before they start again (65434 in the code)
  MaxAsk,    \* bound on the questions asked
  MaxTaken   \* bound on the questions taken up

ASSUME DnsServiceAssumption ==
  /\ Rule \in [Name -> {"exact", "part", "none"}]
  /\ SeqSpace \in Nat \ {0} /\ MaxAsk \in Nat /\ MaxTaken \in Nat

VARIABLES
  asked,    \* the questions of the clients
  taken,    \* those taken up, with the number seq each was given
  replies,  \* what has been answered; n: to which of those taken up
  notes     \* the notes under way to the proxy

serviceVars == <<asked, taken, replies, notes>>

Seqs == 1..SeqSpace
Question == [cli : Client, id : 1..MaxAsk, name : Name]
Taken == [cli : Client, id : 1..MaxAsk, name : Name, seq : Seqs]
Note == [cli : Client, name : Name, n : 1..MaxTaken]

ServiceInit == asked = {} /\ taken = <<>> /\ replies = {} /\ notes = {}

Ask(c, name) ==
  /\ Cardinality(asked) < MaxAsk
  /\ asked' = asked \cup {[cli |-> c, id |-> Cardinality(asked) + 1, name |-> name]}
  /\ UNCHANGED <<taken, replies, notes>>

NextSeq(s) == IF s = SeqSpace THEN 1 ELSE s + 1

\* the number of the next question
Number == IF taken = <<>> THEN 1 ELSE NextSeq(taken[Len(taken)].seq)

TakenUp(q, s) == [cli |-> q.cli, id |-> q.id, name |-> q.name, seq |-> s]

TakeUp(q) ==
  /\ q \in asked /\ Len(taken) < MaxTaken
  /\ taken' = Append(taken, TakenUp(q, Number))
  /\ UNCHANGED <<asked, replies, notes>>

SameNumber(m, n) == taken[m].seq = taken[n].seq

\* variant: the note names the client that has asked last
NoteOf_LastAsker(n, name) == [cli |-> taken[Len(taken)].cli, name |-> name, n |-> n]

NoteOf(n, name) == [cli |-> taken[n].cli, name |-> name, n |-> n]
ReplyTo(n, name) == [n |-> n, cli |-> taken[n].cli, id |-> taken[n].id,
                     name |-> name, proxied |-> Rule[name] # "none"]

\* The n-th is served with what is known of the m-th: the proxy is told of it,
\* the client is answered, or both.
Serve(n, m) ==
  LET name == taken[m].name IN
  /\ SameNumber(m, n) /\ \A r \in replies : r.n # n
  /\ \/ notes' = notes
     \/ Rule[name] = "exact" /\ notes' = notes \cup {NoteOf(n, name)}
  /\ replies' \in {replies, replies \cup {ReplyTo(n, name)}}
  /\ UNCHANGED <<asked, taken>>

ServiceNext ==
  \/ \E c \in Client, name \in Name : Ask(c, name)
  \/ \E q \in asked : TakeUp(q)
  \/ \E n, m \in DOMAIN taken : Serve(n, m)

ServiceSpec == ServiceInit /\ [][ServiceNext]_serviceVars
=============================================================================
