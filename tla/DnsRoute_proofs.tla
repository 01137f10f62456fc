-------------------------- MODULE DnsRoute_proofs --------------------------
(***************************************************************************)
(* Theorems about DnsRoute, for every number of clients, names, questions, *)
(* sequence numbers, connections and signatures, and every size of the     *)
(* table.                                                                  *)
(***************************************************************************)
EXTENDS DnsRoute, TLAPS, SequenceTheorems, FiniteSetTheorems

Found   == [note : Note, old : BOOLEAN]
Context == [pcall : {"none"}] \cup [pcall : {"getHost"}, cli : Client, sig : Sig]
             \cup [pcall : {"pending", "io"}, cli : Client, sig : Sig, note : Note \cup {NoRoute}]

TypeInv ==
  /\ asked \subseteq Question /\ IsFiniteSet(asked)
  /\ taken \in Seq(Taken) /\ Len(taken) <= MaxTaken
  /\ notes \subseteq Note /\ queuing \subseteq Note
  /\ clients \in [Client -> [Key -> Found \cup {NoRoute}]]
  /\ hostFault \in BOOLEAN /\ trimmed \in BOOLEAN
  /\ conn \in [Conn -> Context]
  /\ latest \in [Client -> Note \cup {NoRoute}]

\* Whose question a note is about, whatever has been taken up since: its client
\* asked it, and asked for the name unless two questions have the same number.
Truthful(d) ==
  /\ d.n \in DOMAIN taken /\ taken[d.n].cli = d.cli
  /\ \/ taken[d.n].name = d.name
     \/ \E m \in DOMAIN taken : m # d.n /\ SameNumber(m, d.n)

\* A note says so from the reply of miki to the end of the connection it routes;
\* a connection without a note is one to the configured host.
NotesTrue ==
  /\ \A d \in notes \cup queuing : Truthful(d)
  /\ \A c \in Client : latest[c] # NoRoute => Truthful(latest[c]) /\ latest[c].cli = c
  /\ \A k \in Conn : conn[k].pcall \in {"pending", "io"} =>
       IF conn[k].note = NoRoute THEN k \in Redirected
       ELSE Truthful(conn[k].note) /\ conn[k].note.cli = conn[k].cli

\* All routes of a client come from one note, the last.
OneNote ==
  \A c \in Client : \A s \in Key : clients[c][s] # NoRoute => clients[c][s].note = latest[c]

\* Unless the cleanup has taken it away, a client with a route has a default one.
DefaultKept ==
  /\ ~trimmed => \A c \in Client : \A s \in Key : clients[c][s] # NoRoute => clients[c][Default] # NoRoute
  /\ hostFault => trimmed

RouteInv == TypeInv /\ NotesTrue /\ OneNote /\ DefaultKept

-----------------------------------------------------------------------------
(* The table.                                                              *)

\* Writing one route of one client leaves the others.
LEMMA RouteSet ==
  ASSUME NEW X, NEW f \in [Client -> [Key -> X]], NEW c \in Client, NEW s \in Key, NEW v \in X
  PROVE  /\ [f EXCEPT ![c][s] = v] \in [Client -> [Key -> X]]
         /\ \A e \in Client : \A u \in Key :
              [f EXCEPT ![c][s] = v][e][u] = IF e = c /\ u = s THEN v ELSE f[e][u]
<1>1. [f[c] EXCEPT ![s] = v] \in [Key -> X] /\ \A u \in Key : [f[c] EXCEPT ![s] = v][u] = IF u = s THEN v ELSE f[c][u]
  OBVIOUS
<1>2. [f EXCEPT ![c][s] = v] = [f EXCEPT ![c] = [f[c] EXCEPT ![s] = v]]
  OBVIOUS
<1> QED
  BY <1>1, <1>2

\* The cleanup takes routes away and changes none.
LEMMA CleanedRoutes ==
  ASSUME TypeInv
  PROVE  /\ Cleaned \in [Client -> [Key -> Found \cup {NoRoute}]]
         /\ \A c \in Client : \A s \in Key : Cleaned[c][s] \in {NoRoute, clients[c][s]}
  BY DnsRouteAssumption DEF TypeInv, Cleaned

\* What update_host does to the table: the route found by the request, or else
\* the default one, is there for the request from now on.
LEMMA Updated ==
  ASSUME TypeInv, NEW c \in Client, NEW s \in Sig, UpdateHost(c, s)
  PROVE  /\ clients' \in [Client -> [Key -> Found \cup {NoRoute}]]
         /\ \A e \in Client : \A u \in Key : clients'[e][u] = NoRoute <=>
              IF e = c /\ u = s /\ s \notin Routes(c) THEN clients[c][Default] = NoRoute
                                                     ELSE clients[e][u] = NoRoute
         /\ \A e \in Client : \A u \in Key : clients'[e][u] # NoRoute =>
              \E w \in Key : clients[e][w] # NoRoute /\ clients'[e][u].note = clients[e][w].note
         /\ hostFault' \in BOOLEAN
         /\ hostFault' => hostFault \/ (Routes(c) # {} /\ clients[c][Default] = NoRoute)
<1> USE DnsRouteAssumption, DnsHostsAssumption
<1>0. /\ clients \in [Client -> [Key -> Found \cup {NoRoute}]] /\ s \in Key /\ Default \in Key
      /\ NoRoute \notin Found /\ hostFault \in BOOLEAN
  BY DEF TypeInv, Key, Found
<1>1. CASE s \in Routes(c)
  <2>1. clients[c][s] \in Found
    BY <1>0, <1>1 DEF Routes
  <2> DEFINE v == [clients[c][s] EXCEPT !.old = FALSE]
  <2>2. v \in Found /\ v.note = clients[c][s].note
    BY <2>1 DEF Found
  <2>3. clients' = [clients EXCEPT ![c][s] = v] /\ hostFault' = hostFault
    BY <1>0, <1>1 DEF UpdateHost
  <2> HIDE DEF v
  <2>4. /\ clients' \in [Client -> [Key -> Found \cup {NoRoute}]]
        /\ \A e \in Client : \A u \in Key : clients'[e][u] = IF e = c /\ u = s THEN v ELSE clients[e][u]
    BY <1>0, <2>2, <2>3, RouteSet
  <2>5. clients[c][s] # NoRoute
    BY <1>1 DEF Routes
  <2> QED
    BY <1>0, <1>1, <2>2, <2>3, <2>4, <2>5
<1>2. CASE s \notin Routes(c)
  <2>1. clients' = [clients EXCEPT ![c][s] = clients[c][Default]] /\ hostFault' = Misses(c, s)
    BY <1>2 DEF UpdateHost
  <2>2. /\ clients' \in [Client -> [Key -> Found \cup {NoRoute}]]
        /\ \A e \in Client : \A u \in Key :
             clients'[e][u] = IF e = c /\ u = s THEN clients[c][Default] ELSE clients[e][u]
    BY <1>0, <2>1, RouteSet
  <2>3. hostFault' = (Routes(c) # {} /\ clients[c][Default] = NoRoute)
    BY <1>2, <2>1 DEF Misses, Route
  <2> QED
    BY <1>0, <1>2, <2>2, <2>3
<1> QED
  BY <1>1, <1>2

\* The invariant: what is known of a client's routes is what its last note says,
\* and what a note says of its client and name was asked.
THEOREM Routing == Spec => []RouteInv
<1> USE DnsServiceAssumption, DnsRouteAssumption, DnsHostsAssumption
<1>1. Init => RouteInv
  <2> SUFFICES ASSUME Init PROVE RouteInv
    OBVIOUS
  <2> USE DEF Init, ServiceInit, HostsInit
  <2>1. asked \subseteq Question /\ IsFiniteSet(asked) /\ taken \in Seq(Taken) /\ Len(taken) <= MaxTaken
    BY FS_EmptySet, EmptySeq
  <2>2. /\ clients \in [Client -> [Key -> Found \cup {NoRoute}]]
        /\ \A c \in Client : \A s \in Key : clients[c][s] = NoRoute
    BY DEF NoRoutes
  <2>3. conn \in [Conn -> Context] /\ \A k \in Conn : conn[k].pcall = "none"
    BY DEF Context
  <2>4. TypeInv
    BY <2>1, <2>2, <2>3 DEF TypeInv
  <2> QED
    BY <2>2, <2>3, <2>4 DEF RouteInv, NotesTrue, OneNote, DefaultKept
<1>2. RouteInv /\ [Next]_vars => RouteInv'
  <2> SUFFICES ASSUME RouteInv, [Next]_vars PROVE RouteInv'
    OBVIOUS
  <2> USE DEF serviceVars, hostVars
  <2>a. /\ asked \subseteq Question /\ IsFiniteSet(asked)
        /\ taken \in Seq(Taken) /\ Len(taken) <= MaxTaken
        /\ notes \subseteq Note /\ queuing \subseteq Note
        /\ clients \in [Client -> [Key -> Found \cup {NoRoute}]]
        /\ hostFault \in BOOLEAN /\ trimmed \in BOOLEAN
        /\ conn \in [Conn -> Context] /\ latest \in [Client -> Note \cup {NoRoute}]
        /\ Default \in Key
    BY DEF RouteInv, TypeInv, Key
  <2>b. TypeInv /\ NotesTrue /\ OneNote /\ DefaultKept
    BY DEF RouteInv
  \* what stays true of the table and the connections when they stay
  <2>t. ASSUME UNCHANGED taken, NEW d, Truthful(d) PROVE Truthful(d)'
    BY <2>t DEF Truthful, SameNumber
  <2>h. ASSUME UNCHANGED <<hostVars, latest>> PROVE OneNote' /\ DefaultKept'
    BY <2>b, <2>h DEF OneNote, DefaultKept
  <2>m. ASSUME UNCHANGED <<hostVars, conn, latest>>, taken' \in Seq(Taken), Len(taken') <= MaxTaken,
               asked' \subseteq Question, IsFiniteSet(asked'), notes' \subseteq Note,
               \A d : Truthful(d) => Truthful(d)', \A d \in notes' \ notes : Truthful(d)'
        PROVE  RouteInv'
    <3>1. TypeInv'
      BY <2>b, <2>m DEF TypeInv
    <3>2. NotesTrue'
      BY <2>b, <2>m DEF NotesTrue
    <3> QED
      BY <3>1, <3>2, <2>h, <2>m DEF RouteInv
  <2>1. ASSUME NEW c \in Client, NEW name \in Name, Ask(c, name), UNCHANGED <<hostVars, conn, latest>>
        PROVE  RouteInv'
    <3>1. Cardinality(asked) + 1 \in 1..MaxAsk
      BY <2>1, <2>a, FS_CardinalityType DEF Ask
    <3> DEFINE a == [cli |-> c, id |-> Cardinality(asked) + 1, name |-> name]
    <3>3. a \in Question
      BY <3>1 DEF Question
    <3>4. asked' = asked \cup {a} /\ UNCHANGED <<taken, notes>>
      BY <2>1 DEF Ask
    <3> HIDE DEF a
    <3>2. asked' \subseteq Question /\ IsFiniteSet(asked')
      BY <2>a, <3>3, <3>4, FS_AddElement
    <3> QED
      BY <2>1, <2>a, <2>m, <2>t, <3>2, <3>4
  <2>2. ASSUME NEW qu \in asked, TakeUp(qu), UNCHANGED <<hostVars, conn, latest>> PROVE RouteInv'
    <3>1. TakenUp(qu, Number) \in Taken
      <4>1. Number \in Seqs
        <5>1. CASE taken = <<>>
          BY <5>1 DEF Number, Seqs
        <5>2. CASE taken # <<>>
          <6>1. Len(taken) \in 1..Len(taken)
            BY <2>a, <5>2, LenProperties, EmptySeq
          <6>2. taken[Len(taken)] \in Taken
            BY <2>a, <6>1, ElementOfSeq
          <6> QED
            BY <5>2, <6>2 DEF Number, NextSeq, Taken, Seqs
        <5> QED
          BY <5>1, <5>2
      <4> QED
        BY <2>a, <4>1 DEF TakenUp, Taken, Question
    <3>2. taken' = Append(taken, TakenUp(qu, Number)) /\ Len(taken) < MaxTaken /\ UNCHANGED <<asked, notes>>
      BY <2>2 DEF TakeUp
    <3>3. /\ taken' \in Seq(Taken) /\ Len(taken') <= MaxTaken
          /\ \A k \in DOMAIN taken : k \in DOMAIN taken' /\ taken'[k] = taken[k]
      BY <2>a, <3>1, <3>2, AppendProperties, LenProperties
    <3>4. ASSUME NEW d, Truthful(d) PROVE Truthful(d)'
      BY <3>3, <3>4 DEF Truthful, SameNumber
    <3> QED
      BY <2>2, <2>a, <2>m, <3>2, <3>3, <3>4
  <2>3. ASSUME NEW n \in DOMAIN taken, NEW m \in DOMAIN taken, Serve(n, m), UNCHANGED <<hostVars, conn, latest>>
        PROVE  RouteInv'
    <3> DEFINE d == NoteOf(n, taken[m].name)
    <3>1. taken[n] \in Taken /\ taken[m] \in Taken /\ n \in 1..MaxTaken
      BY <2>a, LenProperties, ElementOfSeq
    <3>2. d \in Note /\ d.n = n /\ d.cli = taken[n].cli /\ d.name = taken[m].name
      BY <3>1 DEF NoteOf, Note, Taken
    <3>3. SameNumber(m, n) /\ UNCHANGED <<asked, taken>> /\ (notes' = notes \/ notes' = notes \cup {d})
      BY <2>3 DEF Serve
    <3> HIDE DEF d
    <3>4. Truthful(d)
      BY <3>2, <3>3 DEF Truthful
    <3> QED
      BY <2>3, <2>a, <2>m, <2>t, <3>2, <3>3, <3>4
  <2>4. ASSUME NEW d \in notes, NoteArrives(d) PROVE RouteInv'
    <3>1. /\ notes' = notes \ {d} /\ queuing' = queuing \cup {d} /\ ~hostFault /\ UNCHANGED hostFault
          /\ UNCHANGED <<asked, taken, conn, latest>>
      BY <2>4 DEF NoteArrives, QueueBegin
    <3>2. \/ clients' = clients /\ trimmed' = trimmed
          \/ /\ clients' = Cleaned
             /\ trimmed' = (trimmed \/ \E c \in Client : Cleaned[c][Default] = NoRoute /\ Cleaned[c] # NoRoutes)
      BY <2>4 DEF NoteArrives, QueueBegin
    <3>3. /\ clients' \in [Client -> [Key -> Found \cup {NoRoute}]]
          /\ \A c \in Client : \A s \in Key : clients'[c][s] \in {NoRoute, clients[c][s]}
          /\ trimmed' \in BOOLEAN
      BY <3>2, <2>a, <2>b, CleanedRoutes
    <3>4. TypeInv'
      BY <3>1, <3>3, <2>a DEF TypeInv
    <3>5. NotesTrue'
      BY <3>1, <2>b, <2>t DEF NotesTrue
    <3>6. OneNote'
      BY <3>1, <3>3, <2>b DEF OneNote
    <3>7. DefaultKept'
      <4>1. CASE clients' = clients /\ trimmed' = trimmed
        BY <4>1, <3>1, <2>b DEF DefaultKept
      <4>2. ASSUME clients' = Cleaned, ~trimmed',
                   trimmed' = (trimmed \/ \E c \in Client : Cleaned[c][Default] = NoRoute /\ Cleaned[c] # NoRoutes),
                   NEW c \in Client, NEW s \in Key, clients'[c][s] # NoRoute
            PROVE  clients'[c][Default] # NoRoute
        BY <4>2 DEF NoRoutes
      <4> QED
        BY <3>1, <3>2, <4>1, <4>2 DEF DefaultKept
    <3> QED
      BY <3>4, <3>5, <3>6, <3>7 DEF RouteInv
  <2>5. ASSUME NEW d \in queuing, NoteEntered(d) PROVE RouteInv'
    <3>1. d \in Note /\ d.cli \in Client /\ Truthful(d)
      BY <2>a, <2>b DEF NotesTrue, Note
    <3> DEFINE v == [note |-> d, old |-> FALSE]
               row == [NoRoutes EXCEPT ![Default] = v]
    <3>a. v \in [note : Note, old : BOOLEAN] /\ v.note = d
      BY <3>1
    <3>2. v \in Found /\ v.note = d /\ v # NoRoute
      BY <3>a DEF Found
    <3>3. row \in [Key -> Found \cup {NoRoute}] /\ \A s \in Key : row[s] = IF s = Default THEN v ELSE NoRoute
      BY <2>a, <3>2 DEF NoRoutes
    <3>4. /\ clients' = [clients EXCEPT ![d.cli] = row] /\ queuing' = queuing \ {d}
          /\ latest' = [latest EXCEPT ![d.cli] = d] /\ UNCHANGED <<serviceVars, hostFault, trimmed, conn>>
      BY <2>5 DEF NoteEntered, QueueHost
    <3> HIDE DEF v, row
    <3>5. /\ clients' \in [Client -> [Key -> Found \cup {NoRoute}]]
          /\ \A c \in Client : clients'[c] = IF c = d.cli THEN row ELSE clients[c]
      BY <3>1, <3>3, <3>4, <2>a
    <3>6. /\ latest' \in [Client -> Note \cup {NoRoute}]
          /\ \A c \in Client : latest'[c] = IF c = d.cli THEN d ELSE latest[c]
      BY <3>1, <3>4, <2>a
    <3>7. TypeInv'
      BY <3>4, <3>5, <3>6, <2>a DEF TypeInv
    <3>8. NotesTrue'
      BY <3>1, <3>4, <3>6, <2>b, <2>t DEF NotesTrue
    <3>9. OneNote'
      BY <3>2, <3>3, <3>5, <3>6, <2>b DEF OneNote
    <3>10. DefaultKept'
      BY <3>2, <3>3, <3>4, <3>5, <2>a, <2>b DEF DefaultKept
    <3> QED
      BY <3>7, <3>8, <3>9, <3>10 DEF RouteInv
  \* a step of the connections alone
  <2>c. ASSUME NEW k \in Conn, NEW x \in Context, conn' = [conn EXCEPT ![k] = x],
               UNCHANGED <<serviceVars, hostVars, latest>>,
               x.pcall \in {"pending", "io"} =>
                 IF x.note = NoRoute THEN k \in Redirected
                 ELSE Truthful(x.note) /\ x.note.cli = x.cli
        PROVE  RouteInv'
    <3>1. conn' \in [Conn -> Context] /\ \A j \in Conn : conn'[j] = IF j = k THEN x ELSE conn[j]
      BY <2>a, <2>c
    <3>2. TypeInv'
      BY <2>a, <2>c, <3>1 DEF TypeInv
    <3>3. NotesTrue'
      BY <2>b, <2>c, <2>t, <3>1 DEF NotesTrue
    <3> QED
      BY <2>c, <2>h, <3>2, <3>3 DEF RouteInv
  <2>6. ASSUME NEW k \in Conn, NEW c \in Client, NEW s \in Sig, Connects(k, c, s) PROVE RouteInv'
    <3> DEFINE x == [pcall |-> "getHost", cli |-> c, sig |-> s]
    <3>1. x \in Context /\ x.pcall = "getHost"
      BY DEF Context
    <3>2. conn' = [conn EXCEPT ![k] = x] /\ UNCHANGED <<serviceVars, hostVars, latest>>
      BY <2>6 DEF Connects
    <3> HIDE DEF x
    <3> QED
      BY <2>c, <3>1, <3>2
  <2>7. ASSUME NEW k \in Conn, GetHostname(k) PROVE RouteInv'
    <3>1. conn[k].pcall = "getHost" /\ ~hostFault
      BY <2>7 DEF GetHostname
    <3>2. PICK c \in Client, s \in Sig : conn[k].cli = c /\ conn[k].sig = s
      BY <2>a, <3>1 DEF Context
    <3>3. /\ UNCHANGED <<serviceVars, clients, queuing, trimmed, latest>>
          /\ hostFault' = Misses(c, s)
      BY <2>7, <3>2 DEF GetHostname
    <3>4. Route(c, s) # NoRoute => Route(c, s) \in Found /\ Route(c, s).note = latest[c] /\ latest[c] \in Note
      <4>1. s \in Key
        BY DEF Key
      <4>2. PICK u \in Key : Route(c, s) = clients[c][u]
        BY <2>a, <4>1 DEF Route
      <4>3. ASSUME clients[c][u] # NoRoute
            PROVE  clients[c][u] \in Found /\ clients[c][u].note = latest[c]
        BY <2>a, <2>b, <4>3 DEF OneNote
      <4> QED
        BY <4>2, <4>3 DEF Found
    <3>5. PICK x \in Context :
            /\ conn' = [conn EXCEPT ![k] = x]
            /\ x.pcall \in {"pending", "none"}
            /\ x.pcall = "pending" =>
                 /\ x.cli = c
                 /\ \/ x.note = NoRoute /\ k \in Redirected
                    \/ x.note = latest[c] /\ latest[c] \in Note
      <4>1. CASE Route(c, s) # NoRoute /\ conn' = [conn EXCEPT ![k] = Pending(c, s, Route(c, s).note)]
        <5>1. Pending(c, s, latest[c]) \in Context /\ Pending(c, s, latest[c]).note = latest[c]
          BY <3>4, <4>1 DEF Pending, Context
        <5> QED
          BY <3>4, <4>1, <5>1 DEF Pending
      <4>2. CASE k \in Redirected /\ conn' = [conn EXCEPT ![k] = Pending(c, s, NoRoute)]
        <5>1. Pending(c, s, NoRoute) \in Context
          BY DEF Pending, Context
        <5> QED
          BY <4>2, <5>1 DEF Pending
      <4>3. CASE conn' = [conn EXCEPT ![k] = [pcall |-> "none"]]
        <5> DEFINE y == [pcall |-> "none"]
        <5>1. y \in Context /\ y.pcall = "none" /\ conn' = [conn EXCEPT ![k] = y]
          BY <4>3 DEF Context
        <5> HIDE DEF y
        <5> QED
          BY <5>1
      <4>4. \/ Route(c, s) # NoRoute /\ conn' = [conn EXCEPT ![k] = Pending(c, s, Route(c, s).note)]
            \/ k \in Redirected /\ conn' = [conn EXCEPT ![k] = Pending(c, s, NoRoute)]
            \/ conn' = [conn EXCEPT ![k] = [pcall |-> "none"]]
        BY <2>7, <3>2 DEF GetHostname
      <4> QED
        BY <4>1, <4>2, <4>3, <4>4
    <3>9. conn' \in [Conn -> Context] /\ \A j \in Conn : conn'[j] = IF j = k THEN x ELSE conn[j]
      BY <2>a, <3>5
    <3>10. TypeInv'
      <4>1. hostFault' \in BOOLEAN
        BY <3>3 DEF Misses
      <4> QED
        BY <2>a, <3>3, <3>9, <4>1 DEF TypeInv
    <3>11. NotesTrue'
      <4>1. NoRoute \notin Note
        OBVIOUS
      <4> QED
        BY <2>b, <2>t, <3>3, <3>5, <3>9, <4>1 DEF NotesTrue
    <3>12. DefaultKept'
      <4>1. hostFault' => Routes(c) # {} /\ clients[c][Default] = NoRoute
        BY <3>3 DEF Misses, Route, Routes
      <4>2. Routes(c) # {} => \E u \in Key : clients[c][u] # NoRoute
        BY DEF Routes
      <4> QED
        BY <2>b, <3>3, <4>1, <4>2 DEF DefaultKept
    <3> QED
      BY <2>b, <3>3, <3>10, <3>11, <3>12 DEF RouteInv, OneNote
  <2>8. ASSUME NEW k \in Conn, RIsConnected(k) PROVE RouteInv'
    <3>1. conn[k].pcall = "pending" /\ conn' = [conn EXCEPT ![k].pcall = "io"]
      BY <2>8 DEF RIsConnected
    <3>2. conn[k] \in [pcall : {"pending", "io"}, cli : Client, sig : Sig, note : Note \cup {NoRoute}]
      BY <2>a, <3>1 DEF Context
    <3> DEFINE x == [conn[k] EXCEPT !.pcall = "io"]
    <3>3. x \in Context /\ x.note = conn[k].note /\ x.cli = conn[k].cli
      BY <3>2 DEF Context
    <3>4. conn' = [conn EXCEPT ![k] = x]
      BY <3>1
    <3> HIDE DEF x
    <3>5. conn' \in [Conn -> Context] /\ \A j \in Conn : conn'[j] = IF j = k THEN x ELSE conn[j]
      BY <2>a, <3>3, <3>4
    <3>6. UpdateHost(conn[k].cli, conn[k].sig) /\ UNCHANGED <<serviceVars, queuing, trimmed, latest>>
      BY <2>8 DEF RIsConnected
    <3>7. PICK c \in Client, s \in Sig : conn[k].cli = c /\ conn[k].sig = s
      BY <3>2
    <3>8. /\ clients' \in [Client -> [Key -> Found \cup {NoRoute}]]
          /\ \A e \in Client : \A u \in Key : clients'[e][u] = NoRoute <=>
               IF e = c /\ u = s /\ s \notin Routes(c) THEN clients[c][Default] = NoRoute
                                                      ELSE clients[e][u] = NoRoute
          /\ \A e \in Client : \A u \in Key : clients'[e][u] # NoRoute =>
               \E w \in Key : clients[e][w] # NoRoute /\ clients'[e][u].note = clients[e][w].note
          /\ hostFault' \in BOOLEAN
          /\ hostFault' => hostFault \/ (Routes(c) # {} /\ clients[c][Default] = NoRoute)
      BY <2>b, <3>6, <3>7, Updated
    <3>9. TypeInv'
      BY <2>a, <3>5, <3>6, <3>8 DEF TypeInv
    <3>10. NotesTrue'
      BY <2>b, <2>t, <3>1, <3>3, <3>5, <3>6 DEF NotesTrue
    <3>11. OneNote'
      BY <2>b, <3>6, <3>8 DEF OneNote
    <3>12. DefaultKept'
      <4>1. \A e \in Client : clients'[e][Default] = NoRoute <=> clients[e][Default] = NoRoute
        BY <2>a, <3>8
      <4>2. \A e \in Client : \A u \in Key : clients'[e][u] # NoRoute => \E w \in Key : clients[e][w] # NoRoute
        BY <3>8
      <4>3. hostFault' => trimmed
        BY <2>b, <3>8 DEF DefaultKept, Routes
      <4> QED
        BY <2>b, <3>6, <4>1, <4>2, <4>3 DEF DefaultKept
    <3> QED
      BY <3>9, <3>10, <3>11, <3>12 DEF RouteInv
  <2>9. ASSUME NEW k \in Conn, Closes(k) PROVE RouteInv'
    <3> DEFINE x == [pcall |-> "none"]
    <3>1. x \in Context /\ x.pcall = "none"
      BY DEF Context
    <3>2. conn' = [conn EXCEPT ![k] = x] /\ UNCHANGED <<serviceVars, hostVars, latest>>
      BY <2>9 DEF Closes
    <3> HIDE DEF x
    <3> QED
      BY <2>c, <3>1, <3>2
  <2>10. CASE Ageing
    <3>1. PICK c \in Client, s \in Key : RouteAges(c, s)
      BY <2>10 DEF Ageing
    <3>2. /\ clients[c][s] # NoRoute /\ clients' = [clients EXCEPT ![c][s].old = TRUE]
          /\ UNCHANGED <<serviceVars, queuing, hostFault, trimmed, conn, latest>>
      BY <2>10, <3>1 DEF Ageing, RouteAges, Routes
    <3> DEFINE v == [clients[c][s] EXCEPT !.old = TRUE]
    <3>a. clients[c][s] \in Found
      BY <2>a, <3>2
    <3>3. v \in [note : Note, old : BOOLEAN] /\ v.note = clients[c][s].note
      BY <3>a DEF Found
    <3>4. clients' = [clients EXCEPT ![c][s] = v]
      BY <3>2
    <3>5. v \in Found /\ v # NoRoute
      BY <3>3 DEF Found
    <3> HIDE DEF v
    <3>6. /\ clients' \in [Client -> [Key -> Found \cup {NoRoute}]]
          /\ \A e \in Client : \A u \in Key : clients'[e][u] = IF e = c /\ u = s THEN v ELSE clients[e][u]
      BY <2>a, <3>4, <3>5, RouteSet
    <3>7. TypeInv'
      BY <2>a, <3>2, <3>6 DEF TypeInv
    <3>8. NotesTrue'
      BY <2>b, <2>t, <3>2 DEF NotesTrue
    <3>9. OneNote'
      BY <2>b, <3>2, <3>3, <3>6 DEF OneNote
    <3>10. DefaultKept'
      <4>1. \A e \in Client : \A u \in Key : clients'[e][u] = NoRoute <=> clients[e][u] = NoRoute
        BY <3>2, <3>5, <3>6
      <4> QED
        BY <2>a, <2>b, <3>2, <4>1 DEF DefaultKept
    <3> QED
      BY <3>7, <3>8, <3>9, <3>10 DEF RouteInv
  <2>11. CASE UNCHANGED vars
    <3>1. UNCHANGED <<serviceVars, hostVars, conn, latest>>
      BY <2>11 DEF vars
    <3> QED
      BY <3>1, <2>a, <2>m, <2>t
  <2> QED
    BY <2>1, <2>2, <2>3, <2>4, <2>5, <2>6, <2>7, <2>8, <2>9, <2>10, <2>11 DEF Next, Miki, ServiceNext
<1> QED
  BY <1>1, <1>2, PTL DEF Spec

\* buflea reads past a client's routes only after the cleanup has taken the
\* default away from under other routes of the client.
THEOREM MissesExplainedHolds == Spec => []MissesExplained
<1>1. RouteInv => MissesExplained
  BY DEF RouteInv, DefaultKept, MissesExplained
<1> QED
  BY <1>1, Routing, PTL

\* A client is connected only to a host it has asked for itself, unless the
\* sequence numbers have started again, or to the host its port is configured with.
THEOREM RoutedWhereAskedHolds == Spec => []RoutedWhereAsked
<1>1. RouteInv => RoutedWhereAsked
  <2> SUFFICES ASSUME RouteInv, NEW k \in Conn, conn[k].pcall \in {"pending", "io"}
               PROVE  LET n == conn[k].note.n IN
                      \/ conn[k].note = NoRoute /\ k \in Redirected
                      \/ taken[n].cli = conn[k].cli /\ taken[n].name = conn[k].note.name
                      \/ \E m \in DOMAIN taken : m # n /\ SameNumber(m, n)
    BY DEF RoutedWhereAsked
  <2>1. IF conn[k].note = NoRoute THEN k \in Redirected
        ELSE Truthful(conn[k].note) /\ conn[k].note.cli = conn[k].cli
    BY DEF RouteInv, NotesTrue
  <2> QED
    BY <2>1 DEF Truthful
<1> QED
  BY <1>1, Routing, PTL

\* A connection goes to the host of the note entered last for its client,
\* by whichever signature it is found, and to the configured host only if its
\* client has no route.
THEOREM LatestRouteHolds == Spec => LatestRoute
<1> DEFINE Goes == \A k \in Conn : conn[k].pcall = "getHost" /\ conn'[k].pcall = "pending"
                     => conn'[k].note = IF Routes(conn[k].cli) = {} THEN NoRoute
                                                                    ELSE latest[conn[k].cli]
<1>1. RouteInv /\ [Next]_vars => [Goes]_vars
  <2> SUFFICES ASSUME RouteInv, Next, NEW k \in Conn, conn[k].pcall = "getHost", conn'[k].pcall = "pending"
               PROVE  conn'[k].note = IF Routes(conn[k].cli) = {} THEN NoRoute ELSE latest[conn[k].cli]
    OBVIOUS
  <2>a. /\ conn \in [Conn -> Context] /\ clients \in [Client -> [Key -> Found \cup {NoRoute}]]
        /\ OneNote
    BY DEF RouteInv, TypeInv
  <2>1. ~UNCHANGED conn
    OBVIOUS
  <2>2. CASE Miki \/ Ageing \/ (\E d \in notes : NoteArrives(d)) \/ (\E d \in queuing : NoteEntered(d))
    BY <2>1, <2>2 DEF Miki, Ageing, NoteArrives, NoteEntered
  <2>3. ASSUME NEW j \in Conn, NEW c \in Client, NEW s \in Sig, Connects(j, c, s) PROVE FALSE
    <3>1. conn'[k].pcall \in {"getHost", conn[k].pcall}
      BY <2>3, <2>a DEF Connects
    <3> QED
      BY <3>1
  <2>4. ASSUME NEW j \in Conn, RIsConnected(j) \/ Closes(j) PROVE FALSE
    <3>1. j # k
      BY <2>4 DEF RIsConnected, Closes
    <3>2. conn'[k] = conn[k]
      BY <2>4, <2>a, <3>1 DEF RIsConnected, Closes
    <3> QED
      BY <3>2
  <2>5. ASSUME NEW j \in Conn, GetHostname(j)
        PROVE  conn'[k].note = IF Routes(conn[k].cli) = {} THEN NoRoute ELSE latest[conn[k].cli]
    <3>1. j = k
      BY <2>5, <2>a DEF GetHostname
    <3>2. PICK c \in Client, s \in Sig : conn[k].cli = c /\ conn[k].sig = s
      BY <2>a DEF Context
    <3>3. s \in Key /\ Default \in Key
      BY DEF Key
    <3>4. CASE Route(c, s) # NoRoute /\ conn' = [conn EXCEPT ![k] = Pending(c, s, Route(c, s).note)]
      <4>1. conn'[k].note = Route(c, s).note
        BY <2>a, <3>4 DEF Pending
      <4>2. PICK u \in Key : Route(c, s) = clients[c][u] /\ u \in Routes(c)
        BY <3>3, <3>4 DEF Route, Routes
      <4> QED
        BY <2>a, <3>2, <3>4, <4>1, <4>2 DEF OneNote
    <3>5. CASE Routes(c) = {} /\ conn' = [conn EXCEPT ![k] = Pending(c, s, NoRoute)]
      BY <2>a, <3>2, <3>5 DEF Pending
    <3>6. CASE conn' = [conn EXCEPT ![k] = [pcall |-> "none"]]
      BY <2>a, <3>6
    <3> QED
      BY <2>5, <3>1, <3>2, <3>4, <3>5, <3>6 DEF GetHostname
  <2> QED
    BY <2>2, <2>3, <2>4, <2>5 DEF Next
<1>2. LatestRoute <=> [][Goes]_vars
  BY DEF LatestRoute
<1> QED
  BY <1>1, <1>2, Routing, PTL DEF Spec
=============================================================================
