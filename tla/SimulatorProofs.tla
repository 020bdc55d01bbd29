--------------------------- MODULE SimulatorProofs ---------------------------
(***************************************************************************)
(* Proofs about the remote sensor with its base, and about the simulator's *)
(* web server, the forms it is sent and its clock: for any number of       *)
(* wakes, tries, connections, pages and fields, whatever is lost on the    *)
(* way and whenever a client leaves or the base restarts.                  *)
(***************************************************************************)
EXTENDS MCSimulator, Modular, Integers, FiniteSetTheorems,
        SequenceTheorems, WellFoundedInduction, TLAPS

-----------------------------------------------------------------------------
(* The remote sensor and its base. *)

\* Where setup() is tells what measured and history have in common.
Place ==
    /\ at # "asleep" => wakes >= 1
    /\ at \notin {"asleep", "read"} => measured = history[wakes]
    /\ written => at \in {"stop", "sleep"}
    /\ IF loop = "parse" THEN serving \in 1..MaxWakes ELSE serving = None

\* The last wake that may have connected.
Last == IF at \in {"read", "join", "connect"} THEN wakes - 1 ELSE wakes

\* Nothing is older than what was stored, and the connections are in the order
\* of their wakes.
Ordered ==
    /\ storedIn <= Last
    /\ \A i \in 1..Len(unclaimed) :
         storedIn < unclaimed[i] /\ unclaimed[i] <= Last
    /\ \A i, j \in 1..Len(unclaimed) : i < j => unclaimed[i] < unclaimed[j]
    /\ loop = "parse" =>
         /\ storedIn < serving /\ serving <= Last
         /\ \A i \in 1..Len(unclaimed) : serving < unclaimed[i]

\* A report of which only a beginning has arrived.
Part == {"nothing", "line", "length"}

\* Of a wake that has not connected nothing arrives, and what arrives whole was
\* measured in its wake.
Told ==
    \A w \in 1..MaxWakes :
        /\ got[w] \in Part \/ got[w] \in Posted(history[w])
        /\ w > Last => got[w] = "nothing"

Truthful == StoredIsOwn /\ Told

IInv == TypeOK /\ Place /\ Ordered /\ Truthful

-----------------------------------------------------------------------------
LEMMA RemoteStarts == Init => IInv
  <1> SUFFICES ASSUME Init PROVE IInv
    OBVIOUS
  <1>1. MaxWakes \in Nat /\ MaxWaiting \in Nat \ {0} /\ Retries \in Nat
    BY RemoteAssumption
  <1>2. unclaimed = <<>> /\ Len(unclaimed) = 0
    BY DEF Init
  <1>3. unclaimed \in Seq(1..MaxWakes)
    BY <1>2
  <1>4. \A w \in 1..MaxWakes : got[w] = "nothing"
    BY DEF Init
  <1>5. TypeOK
    <2>1. /\ wakes \in 0..MaxWakes /\ tries \in 0..Retries
          /\ storedIn \in 0..MaxWakes
      BY <1>1 DEF Init
    <2>2. Len(unclaimed) <= MaxWaiting
      BY <1>1, <1>2
    <2>3. history \in [1..MaxWakes -> Values \cup {NaN, Unread}]
      BY DEF Init
    <2>4. got \in [1..MaxWakes -> Whole \cup {"nothing", "line", "length"}]
      BY DEF Init
    <2>5. /\ at = "asleep" /\ measured = NaN /\ linked = FALSE
          /\ written = FALSE /\ up = TRUE /\ client = None /\ loop = "serve"
          /\ serving = None /\ stored = Unread
      BY DEF Init
    <2> QED
      BY <1>3, <2>1, <2>2, <2>3, <2>4, <2>5 DEF TypeOK
  <1>6. Place
    BY DEF Init, Place
  <1>7. Ordered
    BY <1>2 DEF Init, Ordered, Last
  <1>8. Truthful
    BY <1>4 DEF Init, Truthful, Told, Part, StoredIsOwn
  <1> QED
    BY <1>5, <1>6, <1>7, <1>8 DEF IInv

LEMMA PostedContents ==
  ASSUME NEW v \in Values \cup {NaN}, NEW p \in Posted(v)
  PROVE  p \in Whole /\ p \notin Part
  BY RemoteAssumption DEF Posted, Whole, Part

\* What the type of unclaimed says of its elements.
LEMMA Elements ==
  ASSUME TypeOK
  PROVE  /\ Len(unclaimed) \in Nat
         /\ \A i \in 1..Len(unclaimed) :
              unclaimed[i] \in 1..MaxWakes /\ unclaimed[i] \in Int
  <1> DEFINE W == 1..MaxWakes
  <1>1. unclaimed \in Seq(W)
    BY DEF TypeOK
  <1>2. \A w \in W : w \in Int
    OBVIOUS
  <1> HIDE DEF W
  <1>3. Len(unclaimed) \in Nat /\ \A i \in 1..Len(unclaimed) : unclaimed[i] \in W
    BY <1>1
  <1> QED
    BY <1>2, <1>3 DEF W

LEMMA Served ==
  ASSUME TypeOK, Place, loop = "parse"
  PROVE  serving \in 1..MaxWakes /\ serving \in Int
  BY DEF Place

LEMMA Numbers ==
  ASSUME TypeOK
  PROVE  /\ wakes \in Int /\ Last \in Int /\ storedIn \in Int
         /\ MaxWakes \in Int /\ storedIn >= 0 /\ Last <= wakes
         /\ wakes <= MaxWakes
  BY RemoteAssumption DEF TypeOK, Last

-----------------------------------------------------------------------------
(* Types, and what the place of setup() and of loop() says. *)

LEMMA RemoteTypes ==
  ASSUME TypeOK, Place,
         Wake \/ Try \/ EndJoin \/ FailToConnect \/ Post \/ Stop \/ DeepSleep
           \/ Associate
  PROVE  TypeOK' /\ Place'
  <1> USE RemoteAssumption DEF TypeOK, Place, remote, base
  <1>1. CASE Wake
    <2>1. wakes' \in 0..MaxWakes /\ wakes' >= 1 /\ tries' \in 0..Retries
      BY <1>1 DEF Wake
    <2> QED
      BY <1>1, <2>1 DEF Wake
  <1>2. CASE Try
    <2>1. tries' \in 0..Retries
      BY <1>2 DEF Try
    <2> QED
      BY <1>2, <2>1 DEF Try, vars
  <1>3. CASE EndJoin
    BY <1>3 DEF EndJoin
  <1>4. CASE FailToConnect
    BY <1>4 DEF FailToConnect
  <1>5. CASE Post
    BY <1>5 DEF Post
  <1>6. CASE Stop
    BY <1>6 DEF Stop
  <1>7. CASE DeepSleep
    BY <1>7 DEF DeepSleep
  <1>8. CASE Associate
    BY <1>8 DEF Associate
  <1> QED
    BY <1>1, <1>2, <1>3, <1>4, <1>5, <1>6, <1>7, <1>8

\* A step that leaves the connections that wait, what arrived on each, the
\* store and the history alone.
LEMMA QuietStep ==
  ASSUME IInv, TypeOK', Place', Last' >= Last,
         UNCHANGED <<unclaimed, got, stored, storedIn, history>>,
         loop' = "parse" => loop = "parse" /\ serving' = serving
  PROVE  IInv'
  <1>1. Last \in Int /\ storedIn \in Int
    BY Numbers DEF IInv
  <1>2. Last' \in Int
    BY RemoteAssumption DEF TypeOK, Last
  <1>3. \A i \in 1..Len(unclaimed) : unclaimed[i] \in Int
    BY Elements DEF IInv
  <1>4. loop = "parse" => serving \in Int
    BY Served DEF IInv
  <1>5. \A n \in Int : n <= Last => n <= Last'
    BY <1>1, <1>2
  <1>6. Ordered'
    BY <1>1, <1>3, <1>4, <1>5 DEF IInv, Ordered
  <1>7. Truthful'
    <2>1. \A w \in 1..MaxWakes : w > Last' => w > Last
      BY <1>1, <1>2
    <2> QED
      BY <2>1 DEF IInv, Truthful, Told, StoredIsOwn
  <1> QED
    BY <1>6, <1>7 DEF IInv

LEMMA ReadStep ==
  ASSUME IInv, Read
  PROVE  IInv'
  <1> USE RemoteAssumption
  <1>1. /\ at = "read" /\ at' = "join" /\ wakes' = wakes
        /\ measured' \in Values \cup {NaN}
        /\ history' = [history EXCEPT ![wakes] = measured']
        /\ UNCHANGED <<tries, linked, client, written, up, loop, unclaimed,
                       serving, got, stored, storedIn>>
    BY DEF Read, base
  <1>2. wakes \in 1..MaxWakes /\ wakes \in Int
    BY <1>1 DEF IInv, TypeOK, Place
  <1>3. /\ history' \in [1..MaxWakes -> Values \cup {NaN, Unread}]
        /\ history'[wakes] = measured'
        /\ \A w \in 1..MaxWakes : w # wakes => history'[w] = history[w]
    BY <1>1, <1>2 DEF IInv, TypeOK
  <1>4. TypeOK'
    BY <1>1, <1>3 DEF IInv, TypeOK, Whole
  <1>5. Place'
    BY <1>1, <1>2, <1>3 DEF IInv, Place
  <1>6. Last = wakes - 1 /\ Last' = wakes - 1
    BY <1>1 DEF Last
  <1>7. Ordered'
    BY <1>1, <1>6 DEF IInv, Ordered
  <1>8. StoredIsOwn'
    <2>1. storedIn <= wakes - 1 /\ storedIn \in 0..MaxWakes
      BY <1>6 DEF IInv, Ordered, TypeOK
    <2>2. storedIn # 0 => history'[storedIn] = history[storedIn]
      BY <1>2, <1>3, <2>1
    <2> QED
      BY <1>1, <2>2 DEF IInv, Truthful, StoredIsOwn, Posted
  <1>9. Told'
    <2> SUFFICES ASSUME NEW w \in 1..MaxWakes
                 PROVE  /\ got[w] \in Part \/ got[w] \in Posted(history'[w])
                        /\ w > Last => got[w] = "nothing"
      BY <1>1, <1>6 DEF Told, Posted
    <2>1. CASE w = wakes
      BY <2>1, <1>2, <1>6 DEF IInv, Truthful, Told, Part
    <2>2. CASE w # wakes
      BY <2>2, <1>3 DEF IInv, Truthful, Told
    <2> QED
      BY <2>1, <2>2
  <1> QED
    BY <1>4, <1>5, <1>7, <1>8, <1>9 DEF IInv, Truthful

LEMMA ConnectStep ==
  ASSUME IInv, Connect
  PROVE  IInv'
  <1> USE RemoteAssumption
  <1> DEFINE n == Len(unclaimed)
  <1>1. /\ at = "connect" /\ at' = "post" /\ client' = wakes
        /\ n < MaxWaiting
        /\ unclaimed' = Append(unclaimed, wakes)
        /\ UNCHANGED <<wakes, measured, tries, linked, written, up, loop,
                       serving, got, stored, storedIn, history>>
    BY DEF Connect, Accepted
  <1>2. wakes \in 1..MaxWakes /\ wakes \in Int
    BY <1>1 DEF IInv, TypeOK, Place
  <1>3. unclaimed \in Seq(1..MaxWakes) /\ n \in Nat
    BY DEF IInv, TypeOK
  <1>4. /\ unclaimed' \in Seq(1..MaxWakes) /\ Len(unclaimed') = n + 1
        /\ \A i \in 1..n : unclaimed'[i] = unclaimed[i]
        /\ unclaimed'[n + 1] = wakes
    BY <1>1, <1>2, <1>3
  <1>5. n + 1 <= MaxWaiting
    BY <1>1, <1>3
  <1>6. TypeOK'
    BY <1>1, <1>2, <1>4, <1>5 DEF IInv, TypeOK, Whole
  <1>7. Place'
    BY <1>1, <1>2 DEF IInv, Place
  <1>8. Last = wakes - 1 /\ Last' = wakes
    BY <1>1 DEF Last
  <1>9. storedIn \in Int /\ storedIn < wakes
    BY <1>2, <1>8 DEF IInv, TypeOK, Ordered
  <1>10. \A i \in 1..n : /\ unclaimed[i] \in Int
                         /\ storedIn < unclaimed[i]
                         /\ unclaimed[i] < wakes
    BY <1>2, <1>8, Elements DEF IInv, Ordered
  <1>11. Ordered'
    <2>1. storedIn' <= Last'
      BY <1>1, <1>2, <1>8, <1>9
    <2>2. \A i \in 1..(n + 1) : storedIn < unclaimed'[i]
                                 /\ unclaimed'[i] <= wakes
      <3> SUFFICES ASSUME NEW i \in 1..(n + 1)
                   PROVE  storedIn < unclaimed'[i] /\ unclaimed'[i] <= wakes
        OBVIOUS
      <3>1. CASE i = n + 1
        BY <3>1, <1>2, <1>4, <1>9
      <3>2. CASE i \in 1..n
        BY <3>2, <1>2, <1>4, <1>10
      <3> QED
        BY <3>1, <3>2, <1>3
    <2>3. \A i, j \in 1..(n + 1) : i < j => unclaimed'[i] < unclaimed'[j]
      <3> SUFFICES ASSUME NEW i \in 1..(n + 1), NEW j \in 1..(n + 1), i < j
                   PROVE  unclaimed'[i] < unclaimed'[j]
        OBVIOUS
      <3>1. i \in 1..n
        BY <1>3
      <3>2. CASE j = n + 1
        BY <3>1, <3>2, <1>4, <1>10
      <3>3. CASE j \in 1..n
        BY <3>1, <3>3, <1>4 DEF IInv, Ordered
      <3> QED
        BY <3>2, <3>3, <1>3
    <2>4. loop = "parse" =>
            /\ storedIn < serving /\ serving <= wakes
            /\ \A i \in 1..(n + 1) : serving < unclaimed'[i]
      <3> SUFFICES ASSUME loop = "parse"
                   PROVE  /\ storedIn < serving /\ serving <= wakes
                          /\ \A i \in 1..(n + 1) : serving < unclaimed'[i]
        OBVIOUS
      <3>1. serving \in Int /\ serving < wakes
        BY <1>2, <1>8, Served DEF IInv, Ordered
      <3>2. \A i \in 1..n : serving < unclaimed'[i]
        BY <1>4 DEF IInv, Ordered
      <3>3. serving < unclaimed'[n + 1]
        BY <1>4, <3>1
      <3>4. storedIn < serving /\ serving <= wakes
        BY <1>2, <3>1 DEF IInv, Ordered
      <3>5. \A i \in 1..(n + 1) : i = n + 1 \/ i \in 1..n
        BY <1>3
      <3> HIDE DEF n
      <3> QED
        BY <3>2, <3>3, <3>4, <3>5
    <2> QED
      BY <2>1, <2>2, <2>3, <2>4, <1>1, <1>4, <1>8 DEF Ordered
  <1>12. Truthful'
    <2>1. \A w \in 1..MaxWakes : w > Last' => w > Last
      BY <1>2, <1>8
    <2> QED
      BY <2>1, <1>1 DEF IInv, Truthful, Told, StoredIsOwn
  <1> QED
    BY <1>6, <1>7, <1>11, <1>12 DEF IInv

\* The base is still to read the connection that more arrives on.
LEMMA DeliverStep ==
  ASSUME IInv, Deliver
  PROVE  IInv'
  <1> USE RemoteAssumption
  <1>1. PICK v \in Posted(measured) :
          got' = [got EXCEPT ![wakes] = After(@, v)]
    BY DEF Deliver
  <1>2. /\ written
        /\ wakes \in {serving} \cup {unclaimed[i] : i \in DOMAIN unclaimed}
        /\ got[wakes] \notin Whole
        /\ UNCHANGED <<at, wakes, measured, tries, linked, client, written,
                       up, loop, unclaimed, serving, stored, storedIn,
                       history>>
    BY DEF Deliver, remote
  <1>3. /\ at \in {"stop", "sleep"} /\ wakes \in 1..MaxWakes
        /\ wakes \in Int /\ measured = history[wakes]
        /\ measured \in Values \cup {NaN}
    BY <1>2 DEF IInv, TypeOK, Place
  <1>4. Last = wakes /\ Last' = Last
    BY <1>2, <1>3 DEF Last
  <1>5. storedIn < wakes
    <2>1. CASE wakes = serving
      <3>1. loop = "parse"
        BY <2>1, <1>3 DEF IInv, Place
      <3> QED
        BY <2>1, <3>1 DEF IInv, Ordered
    <2>2. CASE \E i \in DOMAIN unclaimed : wakes = unclaimed[i]
      <3>1. DOMAIN unclaimed = 1..Len(unclaimed)
        BY DEF IInv, TypeOK
      <3> QED
        BY <2>2, <3>1 DEF IInv, Ordered
    <2> QED
      BY <2>1, <2>2, <1>2
  <1>6. got[wakes] \in Part
    BY <1>2, <1>3 DEF IInv, TypeOK, Part
  <1>7. After(got[wakes], v) \in Part \cup {v}
    BY <1>6 DEF After, Part
  <1>8. /\ v \in Whole /\ v \in Posted(history[wakes])
        /\ After(got[wakes], v) \in Whole \cup Part
    BY <1>3, <1>7, PostedContents
  <1>9. /\ got' \in [1..MaxWakes -> Whole \cup Part]
        /\ got'[wakes] = After(got[wakes], v)
        /\ \A w \in 1..MaxWakes : w # wakes => got'[w] = got[w]
    <2>1. got \in [1..MaxWakes -> Whole \cup Part]
      BY DEF IInv, TypeOK, Part
    <2> QED
      BY <2>1, <1>1, <1>3, <1>8
  <1>10. TypeOK'
    BY <1>2, <1>9 DEF IInv, TypeOK, Part, Whole
  <1>11. Place'
    BY <1>2 DEF IInv, Place
  <1>12. Ordered'
    BY <1>2, <1>4 DEF IInv, Ordered
  <1>13. StoredIsOwn'
    <2>1. storedIn # 0 => got'[storedIn] = got[storedIn]
      BY <1>3, <1>5, <1>9 DEF IInv, TypeOK
    <2> QED
      BY <1>2, <2>1 DEF IInv, Truthful, StoredIsOwn
  <1>14. Told'
    <2> SUFFICES ASSUME NEW w \in 1..MaxWakes
                 PROVE  /\ got'[w] \in Part \/ got'[w] \in Posted(history[w])
                        /\ w > Last => got'[w] = "nothing"
      BY <1>2, <1>4 DEF Told, Posted
    <2>1. CASE w = wakes
      BY <2>1, <1>3, <1>4, <1>7, <1>8, <1>9
    <2>2. CASE w # wakes
      BY <2>2, <1>9 DEF IInv, Truthful, Told
    <2> QED
      BY <2>1, <2>2
  <1> QED
    BY <1>10, <1>11, <1>12, <1>13, <1>14 DEF IInv, Truthful

\* The first of a sequence, and the rest of it.
LEMMA Dequeued ==
  ASSUME NEW S, NEW s \in Seq(S), s # <<>>
  PROVE  /\ Head(s) = s[1] /\ s[1] \in S /\ Len(s) \in Nat /\ Len(s) >= 1
         /\ Tail(s) \in Seq(S) /\ Len(Tail(s)) = Len(s) - 1
         /\ \A i \in 1..(Len(s) - 1) : Tail(s)[i] = s[i + 1]
  OBVIOUS

LEMMA ServeStep ==
  ASSUME IInv, Serve
  PROVE  IInv'
  <1> USE RemoteAssumption
  <1>1. /\ loop = "serve"
        /\ UNCHANGED <<at, wakes, measured, tries, linked, client, written,
                       up, got, stored, storedIn, history>>
    BY DEF Serve, remote
  <1>2. Last' = Last
    BY <1>1 DEF Last
  <1>3. CASE unclaimed = <<>>
    <2>1. loop' = "rest" /\ UNCHANGED <<unclaimed, serving>>
      BY <1>3 DEF Serve
    <2>2. TypeOK' /\ Place'
      BY <1>1, <2>1 DEF IInv, TypeOK, Place, Whole
    <2>3. Last' >= Last
      BY <1>2, Numbers DEF IInv
    <2> QED
      BY <1>1, <2>1, <2>2, <2>3, QuietStep
  <1>4. CASE unclaimed # <<>>
    <2> DEFINE n == Len(unclaimed)
    <2>1. /\ loop' = "parse"
          /\ serving' = Head(unclaimed) /\ unclaimed' = Tail(unclaimed)
      BY <1>4 DEF Serve
    <2>2. unclaimed \in Seq(1..MaxWakes) /\ n \in Nat /\ n >= 1
      BY <1>4, Dequeued DEF IInv, TypeOK
    <2>3. /\ serving' = unclaimed[1] /\ serving' \in 1..MaxWakes
          /\ unclaimed' \in Seq(1..MaxWakes) /\ Len(unclaimed') = n - 1
          /\ \A i \in 1..(n - 1) : unclaimed'[i] = unclaimed[i + 1]
      BY <1>4, <2>1, <2>2, Dequeued
    <2>4. TypeOK'
      <3>1. Len(unclaimed') <= MaxWaiting
        BY <2>2, <2>3 DEF IInv, TypeOK
      <3> QED
        BY <3>1, <1>1, <2>1, <2>3 DEF IInv, TypeOK, Whole
    <2>5. Place'
      BY <1>1, <2>1, <2>3 DEF IInv, Place
    <2>6. /\ \A i \in 1..n : storedIn < unclaimed[i] /\ unclaimed[i] <= Last
          /\ \A i, j \in 1..n : i < j => unclaimed[i] < unclaimed[j]
      BY DEF IInv, Ordered
    <2>7. /\ \A i \in 1..(n - 1) : storedIn < unclaimed'[i]
                                   /\ unclaimed'[i] <= Last
          /\ \A i, j \in 1..(n - 1) : i < j => unclaimed'[i] < unclaimed'[j]
      <3>1. \A i \in 1..(n - 1) : i + 1 \in 1..n
        BY <2>2
      <3>2. \A i, j \in 1..(n - 1) : i < j => i + 1 < j + 1
        OBVIOUS
      <3> QED
        BY <2>3, <2>6, <3>1, <3>2
    <2>8. /\ storedIn < serving' /\ serving' <= Last
          /\ \A i \in 1..(n - 1) : serving' < unclaimed'[i]
      <3>1. 1 \in 1..n /\ \A i \in 1..(n - 1) : i + 1 \in 1..n /\ 1 < i + 1
        BY <2>2
      <3> HIDE DEF n
      <3> QED
        BY <3>1, <2>3, <2>6
    <2>9. Ordered'
      BY <1>1, <1>2, <2>1, <2>3, <2>7, <2>8 DEF IInv, Ordered
    <2>10. Truthful'
      BY <1>1, <1>2 DEF IInv, Truthful, Told, StoredIsOwn
    <2> QED
      BY <2>4, <2>5, <2>9, <2>10 DEF IInv
  <1> QED
    BY <1>3, <1>4

\* The handler is called with the arguments of the connection it serves.
LEMMA StoreStep ==
  ASSUME IInv, NEW r \in Whole \cup {Zero}, Store(r),
         \/ r \in Posted(history[serving])
         \/ r = Zero /\ got[serving] = "line",
         loop = "parse", loop' = "rest", serving' = None,
         UNCHANGED <<remote, up, unclaimed, got, history>>
  PROVE  IInv' /\ storedIn' > storedIn
  <1> USE RemoteAssumption
  <1>1. /\ stored' = r /\ storedIn' = serving
        /\ UNCHANGED <<at, wakes, measured, tries, linked, client, written>>
    BY DEF Store, remote
  <1>2. serving \in 1..MaxWakes /\ serving \in Int
    BY Served DEF IInv
  <1>3. TypeOK' /\ Place'
    BY <1>1, <1>2 DEF IInv, TypeOK, Place, Whole
  <1>4. Last' = Last
    BY <1>1 DEF Last
  <1>5. Ordered' /\ storedIn' > storedIn
    <2>1. /\ storedIn < serving /\ serving <= Last
          /\ \A i \in 1..Len(unclaimed) : serving < unclaimed[i]
      BY DEF IInv, Ordered
    <2>2. storedIn \in Int
      BY Numbers DEF IInv
    <2> QED
      BY <1>1, <1>2, <1>4, <2>1, <2>2 DEF IInv, Ordered
  <1>6. Truthful'
    <2>1. StoredIsOwn'
      BY <1>1, <1>2 DEF StoredIsOwn, Posted
    <2> QED
      BY <1>4, <2>1 DEF IInv, Truthful, Told
  <1> QED
    BY <1>3, <1>5, <1>6 DEF IInv

LEMMA HandleReportStep ==
  ASSUME IInv, HandleReport
  PROVE  IInv' /\ storedIn' > storedIn
  <1>1. /\ loop = "parse" /\ loop' = "rest" /\ serving' = None
        /\ got[serving] \in Whole /\ Store(got[serving])
        /\ UNCHANGED <<remote, up, unclaimed, got, history>>
    BY DEF HandleReport
  <1>2. got[serving] \in Posted(history[serving])
    <2>1. serving \in 1..MaxWakes
      BY <1>1, Served DEF IInv
    <2>2. got[serving] \notin Part
      BY <1>1, RemoteAssumption DEF Whole, Part
    <2> QED
      BY <2>1, <2>2 DEF IInv, Truthful, Told
  <1> QED
    BY <1>1, <1>2, StoreStep

\* The steps of the base that neither claim nor store.
LEMMA BaseStep ==
  ASSUME IInv,
         UNCHANGED <<remote, unclaimed, got, stored, storedIn, history>>,
         up' \in {up, TRUE},
         \/ loop' = loop /\ serving' = serving
         \/ loop = "parse" /\ loop' = "rest" /\ serving' = None
         \/ loop = "rest" /\ loop' = "serve" /\ serving' = serving
  PROVE  IInv'
  <1>1. UNCHANGED <<at, wakes, measured, tries, linked, client, written>>
    BY DEF remote
  <1>2. TypeOK'
    <2>1. up' \in BOOLEAN
      BY DEF IInv, TypeOK
    <2>2. loop' \in {"serve", "parse", "rest"}
      BY DEF IInv, TypeOK
    <2>3. serving' \in 1..MaxWakes \cup {None}
      BY DEF IInv, TypeOK
    <2> QED
      BY <1>1, <2>1, <2>2, <2>3 DEF IInv, TypeOK, Whole
  <1>3. Place'
    BY <1>1 DEF IInv, Place
  <1>4. Last' >= Last
    BY <1>1, Numbers DEF Last, IInv
  <1> QED
    BY <1>2, <1>3, <1>4, QuietStep

\* A report that stops behind its first line is stored as one without
\* arguments; any other that is cut leaves no trace.
LEMMA TimeOutStep ==
  ASSUME IInv, TimeOut
  PROVE  IInv' /\ (storedIn' # storedIn => storedIn' > storedIn)
  <1>1. /\ loop = "parse" /\ loop' = "rest" /\ serving' = None
        /\ UNCHANGED <<remote, up, unclaimed, got, history>>
    BY DEF TimeOut
  <1>2. CASE got[serving] = "line" /\ Store(Zero)
    <2>1. Zero \in Whole \cup {Zero}
      OBVIOUS
    <2> QED
      BY <1>1, <1>2, <2>1, StoreStep
  <1>3. CASE UNCHANGED <<stored, storedIn>>
    BY <1>1, <1>3, BaseStep
  <1> QED
    BY <1>2, <1>3 DEF TimeOut

LEMMA CrashStep ==
  ASSUME IInv, Crash
  PROVE  IInv' /\ ~up'
  <1> USE RemoteAssumption
  <1>1. /\ up' = FALSE /\ loop' = "serve" /\ unclaimed' = <<>>
        /\ serving' = None /\ stored' = Unread /\ storedIn' = 0
        /\ linked' = FALSE /\ written' = FALSE
        /\ UNCHANGED <<at, wakes, measured, tries, client, got, history>>
    BY DEF Crash
  <1>2. unclaimed' \in Seq(1..MaxWakes) /\ Len(unclaimed') = 0
    BY <1>1
  <1>3. TypeOK'
    <2>1. 0 \in 0..MaxWakes /\ 0 <= MaxWaiting
      OBVIOUS
    <2> QED
      BY <1>1, <1>2, <2>1 DEF IInv, TypeOK, Whole
  <1>4. Place'
    BY <1>1 DEF IInv, Place
  <1>5. Last' = Last /\ Last >= 0
    BY <1>1 DEF Last, IInv, TypeOK, Place
  <1>6. Ordered' /\ Truthful'
    BY <1>1, <1>2, <1>5 DEF IInv, Ordered, Truthful, Told, StoredIsOwn
  <1> QED
    BY <1>1, <1>3, <1>4, <1>6 DEF IInv

LEMMA RemoteStep ==
  ASSUME IInv,
         Wake \/ Try \/ EndJoin \/ FailToConnect \/ Post \/ Stop \/ DeepSleep
           \/ Associate
  PROVE  IInv'
  <1>1. TypeOK' /\ Place'
    BY RemoteTypes DEF IInv
  <1>2. UNCHANGED <<up, loop, unclaimed, serving, got, stored, storedIn,
                    history>>
    BY DEF Wake, Try, EndJoin, FailToConnect, Post, Stop, DeepSleep, Associate,
           base
  <1>3. Last' >= Last
    <2>1. wakes \in Int
      BY Numbers DEF IInv
    <2> QED
      BY <2>1 DEF Wake, Try, EndJoin, FailToConnect, Post, Stop, DeepSleep,
                  Associate, Last
  <1> QED
    BY <1>1, <1>2, <1>3, QuietStep

-----------------------------------------------------------------------------
\* The steps of the remote, its connections and its base together.
LEMMA RemoteGoesOn ==
  ASSUME IInv, [Next]_vars
  PROVE  IInv'
  <1>1. CASE Wake \/ Try \/ EndJoin \/ FailToConnect \/ Post \/ Stop
               \/ DeepSleep \/ Associate
    BY <1>1, RemoteStep
  <1>2. CASE Read
    BY <1>2, ReadStep
  <1>3. CASE Connect
    BY <1>3, ConnectStep
  <1>4. CASE Deliver
    BY <1>4, DeliverStep
  <1>5. CASE Serve
    BY <1>5, ServeStep
  <1>6. CASE HandleReport
    BY <1>6, HandleReportStep
  <1>7. CASE TimeOut
    BY <1>7, TimeOutStep
  <1>8. CASE Crash
    BY <1>8, CrashStep
  <1>9. CASE EndPass \/ Start \/ UNCHANGED vars
    BY <1>9, BaseStep DEF EndPass, Start, vars, base
  <1> QED
    BY <1>1, <1>2, <1>3, <1>4, <1>5, <1>6, <1>7, <1>8, <1>9
       DEF Next, Setup, Loop

\* The connections wait in the order of their wakes, later than what is
\* stored; on each a part of its report has arrived, or all of it, as it was
\* measured in its wake.
THEOREM Invariance == Spec => []IInv
  <1>1. Init => IInv
    BY RemoteStarts
  <1>2. IInv /\ [Next]_vars => IInv'
    BY RemoteGoesOn
  <1> QED
    BY <1>1, <1>2, PTL DEF Spec

\* Wherever a report breaks off on its way, what the base holds was measured in
\* the wake it is taken for, but for the zeros of a report that broke off
\* behind its first line and before its length.
THEOREM StoredIsTrue == Spec => []StoredIsOwn
  <1>1. IInv => StoredIsOwn
    BY DEF IInv, Truthful
  <1> QED
    BY <1>1, Invariance, PTL

\* However many reports wait for a base that is busy, they are stored in the
\* order they were measured in, those that are cut among them.
THEOREM StoredInOrder == Spec => NeverOlder
  <1> DEFINE A == storedIn' # storedIn => storedIn' > storedIn \/ ~up'
  <1>1. IInv /\ [Next]_vars => [A]_vars
    <2> SUFFICES ASSUME IInv, [Next]_vars PROVE A
      OBVIOUS
    <2>1. CASE HandleReport
      BY <2>1, HandleReportStep
    <2>2. CASE TimeOut
      BY <2>2, TimeOutStep
    <2>3. CASE Crash
      BY <2>3, CrashStep
    <2>4. CASE Setup \/ Associate \/ Deliver \/ Serve \/ EndPass \/ Start
                 \/ UNCHANGED vars
      BY <2>4 DEF Setup, Wake, Read, Try, EndJoin, Connect, FailToConnect,
                  Post, Stop, DeepSleep, Associate, Deliver, Serve, EndPass,
                  Start, vars, base
    <2> QED
      BY <2>1, <2>2, <2>3, <2>4 DEF Next, Loop
  <1>2. Spec => [][A]_vars
    BY <1>1, Invariance, PTL DEF Spec
  <1> QED
    BY <1>2 DEF NeverOlder

-----------------------------------------------------------------------------
(* The clock, while one thread uses it. *)

\* Where the thread is.
Counting == {"loadTime", "storeTime", "loadPrev", "storePrev"}

\* The seconds that sysTime is ahead of prevMillis.
Ahead == IF pc[this] \in {"loadPrev", "storePrev"} THEN 1 ELSE 0

ClockInv ==
    /\ pc \in [Threads -> {"idle", "test", "restart"} \cup Counting]
    /\ reg \in [Threads -> Int]
    /\ clock \in Int /\ sysTime \in Int /\ prevMillis \in Int
    /\ set_to \in Int /\ set_at \in Int
    /\ 0 <= clock - prevMillis /\ clock - prevMillis < Wrap
    /\ pc[this] \in Counting => clock - prevMillis >= Second
    /\ pc[this] # "restart" =>
         prevMillis - set_at = Second * (sysTime - set_to - Ahead)
    /\ pc[this] = "restart" => sysTime = set_to
    /\ pc[this] = "storeTime" => reg[this] = sysTime
    /\ pc[this] = "storePrev" => reg[this] = prevMillis

LEMMA ClockStarts ==
  ASSUME Threads = OneThread, Clock!Init
  PROVE  ClockInv
  <1>1. Wrap \in Nat \ {0} /\ Second \in Nat \ {0}
    BY ClockAssumption
  <1>2. /\ clock \in 0..(Wrap - 1) /\ sysTime = 0 /\ prevMillis = 0
        /\ set_to = 0 /\ set_at = 0
        /\ pc = [th \in Threads |-> "idle"] /\ reg = [th \in Threads |-> 0]
    BY DEF Clock!Init
  <1>3. this \in Threads /\ pc[this] = "idle"
    BY <1>2 DEF OneThread
  <1> QED
    BY <1>1, <1>2, <1>3 DEF ClockInv, Counting, Ahead

LEMMA ClockGoesOn ==
  ASSUME Threads = OneThread, ClockInv, [Clock!Next]_Clock!vars
  PROVE  ClockInv'
  <1> USE ClockAssumption DEF Counting, Ahead
  <1>1. /\ this \in Threads /\ \A th \in Threads : th = this
        /\ Wrap \in Nat \ {0} /\ Second \in Nat \ {0}
    BY DEF OneThread
  <1>2. Clock!Difference = clock - prevMillis
    <2>1. clock - prevMillis \in 0..(Wrap - 1)
      BY <1>1 DEF ClockInv
    <2> QED
      BY <1>1, <2>1, ModSmall DEF Clock!Difference
  <1>3. CASE UNCHANGED Clock!vars
    BY <1>3 DEF Clock!vars, ClockInv
  <1>4. CASE Clock!Begin(this)
    BY <1>1, <1>4 DEF Clock!Begin, Clock!Goto, ClockInv
  <1>5. CASE Clock!Test(this)
    BY <1>1, <1>2, <1>5
       DEF Clock!Test, Clock!Goto, Clock!SecondPassed, ClockInv
  <1>6. CASE Clock!LoadTime(this)
    BY <1>1, <1>6 DEF Clock!LoadTime, Clock!Goto, ClockInv
  <1>7. CASE Clock!StoreTime(this)
    BY <1>1, <1>7 DEF Clock!StoreTime, Clock!Goto, ClockInv
  <1>8. CASE Clock!LoadPrev(this)
    BY <1>1, <1>8 DEF Clock!LoadPrev, Clock!Goto, ClockInv
  <1>9. CASE Clock!StorePrev(this)
    BY <1>1, <1>9 DEF Clock!StorePrev, Clock!Goto, ClockInv
  <1>10. CASE Clock!RestartSecond(this)
    BY <1>1, <1>10 DEF Clock!RestartSecond, Clock!Goto, ClockInv
  <1>11. ASSUME NEW t \in Settings, Clock!SetTime(this, t)
         PROVE  ClockInv'
    BY <1>1, <1>11 DEF Clock!SetTime, Clock!Goto, ClockInv
  <1>12. CASE Clock!Elapse
    BY <1>1, <1>12 DEF Clock!Elapse, ClockInv
  <1> QED
    BY <1>1, <1>3, <1>4, <1>5, <1>6, <1>7, <1>8, <1>9, <1>10, <1>11, <1>12
       DEF Clock!Next

LEMMA ClockHolds ==
  ASSUME Threads = OneThread, ClockInv
  PROVE  KeepsTime
  <1> SUFFICES ASSUME \A th \in Threads : pc[th] = "idle"
               PROVE  sysTime + Clock!Difference \div Second
                        = set_to + (clock - set_at) \div Second
    BY DEF KeepsTime, Clock!KeepsTime
  <1> DEFINE d == clock - prevMillis
             k == sysTime - set_to
             q == d \div Second
             r == d % Second
  <1>1. Wrap \in Nat \ {0} /\ Second \in Nat \ {0}
    BY ClockAssumption
  <1>2. /\ clock \in Int /\ sysTime \in Int /\ prevMillis \in Int
        /\ set_to \in Int /\ set_at \in Int /\ d \in 0..(Wrap - 1)
        /\ prevMillis - set_at = Second * k
    BY <1>1 DEF ClockInv, Ahead, OneThread
  <1>3. Clock!Difference = d
    BY <1>1, <1>2, ModSmall DEF Clock!Difference
  <1>4. k \in Int /\ clock - set_at = d + Second * k /\ d \in Int
    BY <1>1, <1>2
  <1>5. sysTime = set_to + k
    BY <1>2
  <1> HIDE DEF d, k
  <1>6. q \in Int /\ r \in 0..(Second - 1) /\ d = Second * q + r
    BY <1>1, <1>4, DivMod
  <1> HIDE DEF q, r
  <1>7. clock - set_at = Second * (q + k) + r
    BY <1>1, <1>4, <1>6
  <1>8. (clock - set_at) \div Second = q + k
    <2>1. q + k \in Int /\ clock - set_at \in Int
      BY <1>2, <1>4, <1>6
    <2> QED
      BY <1>1, <1>6, <1>7, <2>1, ModUnique
  <1> QED
    BY <1>2, <1>3, <1>4, <1>5, <1>6, <1>8 DEF q

-----------------------------------------------------------------------------
(* The routes. *)

\* A non-empty set of numbers has a smallest.
LEMMA Least ==
  ASSUME NEW S, S \subseteq Nat, S # {}
  PROVE  \E x \in S : \A y \in S : x <= y
  <1>1. PICK x \in S : \A y \in S : ~(<<y, x>> \in OpToRel(<, Nat))
    BY NatLessThanWellFounded, WFMin
  <1>2. \A y \in S : ~(y < x)
    BY <1>1 DEF OpToRel
  <1>3. \A y \in S : x <= y
    BY <1>2
  <1> QED
    BY <1>3

LEMMA Smallest ==
  ASSUME NEW S, S \subseteq Nat, S # {}
  PROVE  Server!Min(S) \in S
  <1>1. PICK x \in S : \A y \in S : x <= y
    BY Least
  <1> QED
    BY <1>1 DEF Server!Min

LEMMA RouteTypes ==
  /\ Len(Routes) \in Nat /\ DOMAIN Routes = 1..Len(Routes)
  /\ \A i \in 1..Len(Routes) : Routes[i].does \in {"report", "page", "set"}
  <1> DEFINE Route == [method : STRING, uri : STRING,
                       does : {"report", "page", "set"}]
  <1>1. Routes \in Seq(Route)
    BY ServerAssumption
  <1>2. \A r \in Route : r.does \in {"report", "page", "set"}
    OBVIOUS
  <1> HIDE DEF Route
  <1> QED
    BY <1>1, <1>2

\* The handler found is one that can handle the request.
LEMMA Found ==
  ASSUME NEW m, NEW u
  PROVE  LET i == Server!FirstMatch(m, u)
         IN  \/ /\ i = 0
                /\ \A j \in 1..Len(Routes) :
                     ~Server!CanHandle(Routes[j], m, u)
             \/ i \in 1..Len(Routes) /\ Server!CanHandle(Routes[i], m, u)
  <1> DEFINE I == {j \in 1..Len(Routes) : Server!CanHandle(Routes[j], m, u)}
  <1>1. Server!FirstMatch(m, u) = IF I # {} THEN Server!Min(I) ELSE 0
    BY DEF Server!FirstMatch, Server!SelectInSeq
  <1>2. I \subseteq Nat
    OBVIOUS
  <1>3. I # {} => Server!Min(I) \in I
    <2> HIDE DEF I
    <2> QED
      BY <1>2, Smallest
  <1> QED
    BY <1>1, <1>3

-----------------------------------------------------------------------------
(* The web server, while there is one request at a time. *)

\* Where a thread is: it has not yet handed over its request; it uses the
\* members of the server object; and the members it has set by then.
Unasked == {"none", "queued", "line", "head", "body"}
Replying == {"report", "page", "set", "send report", "send page", "send set"}
Chosen == {"handle"} \cup Replying
GivenArgs == {"find"} \cup Chosen
GivenUri == {"args"} \cup GivenArgs
GivenMethod == {"uri"} \cup GivenUri
Given == {"method"} \cup GivenMethod
Serving == {"request", "clear"} \cup Given

\* The thread has the argument of its request, or its client left before it.
Arrived(c) ==
    args[c] = req[c].arg \/ (args[c] = NoArg /\ gone[c] /\ sent[c] = "line")

ThreadOf(c) ==
    /\ refs[c] = IF place[c] \in {"none", "queued"} THEN 0
                 ELSE IF place[c] = "ended" THEN 1 ELSE 2
    /\ closed[c] = 0 \/ (closed[c] = 1 /\ place[c] \in {"destroy", "ended"})
    /\ IF place[c] = "none" THEN req[c] = Null ELSE req[c] \in Requests
    /\ place[c] \in Unasked => args[c] = NoArg
    /\ place[c] \in Serving => Arrived(c)
    /\ place[c] \in (Unasked \cup Serving) \ {"clear"} =>
         reply[c] = Server!Pending
    /\ place[c] \in {"clear", "reply"} \/ closed[c] > 0 =>
         reply[c] = Server!Promised(req[c])

\* The members are those of the request that is served.
Members(c) ==
    /\ place[c] \in Given => currentRequest = c
    /\ place[c] \in GivenMethod => currentMethod = req[c].method
    /\ place[c] \in GivenUri => currentUri = req[c].uri
    /\ place[c] \in GivenArgs => currentArgs = args[c]
    /\ place[c] \in Chosen =>
         /\ currentHandler \in 1..Len(Routes)
         /\ Server!CanHandle(Routes[currentHandler], req[c].method, req[c].uri)
    /\ place[c] \in {"report", "send report"} =>
         Routes[currentHandler].does = "report"
    /\ place[c] \in {"page", "send page"} =>
         Routes[currentHandler].does = "page"
    /\ place[c] \in {"set", "send set"} =>
         Routes[currentHandler].does = "set"
    /\ place[c] = "send set" => responseHeaders = <<"Location">>

Headers ==
    (\A c \in Conns : place[c] # "send set") => responseHeaders = <<>>

OneOpen == \A c, d \in Conns : Server!Open(c) /\ Server!Open(d) => c = d

Places == Unasked \cup Serving \cup {"reply", "destroy", "ended"}

ClientTypes ==
    /\ req \in [Conns -> Requests \cup {Null}]
    /\ sent \in [Conns -> {"nothing", "line", "head", "all"}]
    /\ gone \in [Conns -> BOOLEAN]

SocketTypes == refs \in [Conns -> 0..2] /\ closed \in [Conns -> 0..1]

ThreadTypes ==
    args = [c \in Conns |-> args[c]] /\ reply = [c \in Conns |-> reply[c]]

MemberTypes ==
    /\ currentRequest \in Conns \cup {Null}
    /\ currentHandler \in 0..Len(Routes) /\ Len(responseHeaders) <= 1

ServerTypes ==
    /\ ClientTypes /\ SocketTypes /\ place \in [Conns -> Places]
    /\ ThreadTypes /\ MemberTypes

ServerInv ==
    /\ ServerTypes /\ OneOpen /\ Headers
    /\ \A c \in Conns : ThreadOf(c) /\ Members(c)

-----------------------------------------------------------------------------
LEMMA PlacesAre ==
  Places = {"none", "queued", "line", "head", "body", "request", "method",
            "uri", "args", "find", "handle", "clear", "reply", "destroy",
            "ended", "report", "page", "set", "send report", "send page",
            "send set"}
  BY DEF Places, Unasked, Serving, Given, GivenMethod, GivenUri, GivenArgs,
         Chosen, Replying

LEMMA TypesAreRight ==
  ASSUME ServerTypes
  PROVE  Server!TypeOK
  <1>1. DOMAIN Server!Rest \cup {"all"} = {"nothing", "line", "head", "all"}
    BY DEF Server!Rest
  <1> QED
    BY <1>1, PlacesAre DEF ServerTypes, ClientTypes, SocketTypes, MemberTypes,
                      Server!TypeOK

\* A thread that uses the members is the only one.
LEMMA ServingAlone ==
  ASSUME OneOpen, NEW c \in Conns, place[c] \in Serving,
         NEW d \in Conns, d # c
  PROVE  place[d] \notin Serving
  BY DEF OneOpen, Server!Open, Server!Stuck, Serving, Given, GivenMethod,
     GivenUri, GivenArgs, Chosen, Replying

\* What a step leaves to another connection.
Untouched(d) ==
    /\ place'[d] = place[d] /\ req'[d] = req[d] /\ sent'[d] = sent[d]
    /\ gone'[d] = gone[d] /\ refs'[d] = refs[d] /\ closed'[d] = closed[d]
    /\ args'[d] = args[d] /\ reply'[d] = reply[d]

LEMMA UntouchedThread ==
  ASSUME NEW d \in Conns, ThreadOf(d), Untouched(d)
  PROVE  ThreadOf(d)'
  BY DEF ThreadOf, Untouched, Arrived

LEMMA UntouchedOpen ==
  ASSUME NEW d \in Conns, Untouched(d)
  PROVE  Server!Open(d)' <=> Server!Open(d)
  BY DEF Untouched, Server!Open, Server!Stuck

\* A step of a thread that uses the members.
LEMMA ServingStep ==
  ASSUME ServerInv, NEW c \in Conns, place[c] \in Serving,
         ServerTypes', \A d \in Conns \ {c} : Untouched(d),
         ThreadOf(c)', Members(c)', Headers'
  PROVE  ServerInv'
  <1>1. ASSUME NEW d \in Conns \ {c}
        PROVE  ThreadOf(d)' /\ Members(d)'
    <2>1. d \in Conns /\ d # c /\ Untouched(d) /\ ThreadOf(d)
      BY DEF ServerInv
    <2>2. place'[d] \notin Serving
      BY <2>1, ServingAlone DEF ServerInv, Untouched
    <2>3. Members(d)'
      BY <2>2 DEF Members, Serving, Given, GivenMethod, GivenUri, GivenArgs,
                  Chosen, Replying
    <2> QED
      BY <2>1, <2>3, UntouchedThread
  <1>2. Server!Open(c)
    BY DEF Server!Open, Server!Stuck, Serving, Given, GivenMethod, GivenUri,
           GivenArgs, Chosen, Replying
  <1>3. OneOpen'
    <2>1. \A d \in Conns \ {c} : Server!Open(d)' <=> Server!Open(d)
      BY UntouchedOpen
    <2>2. \A d \in Conns \ {c} : ~Server!Open(d)
      BY <1>2 DEF ServerInv, OneOpen
    <2> QED
      BY <2>1, <2>2 DEF OneOpen
  <1> QED
    BY <1>1, <1>3 DEF ServerInv

\* A step of one that does not.
LEMMA QuietThread ==
  ASSUME ServerInv, NEW c \in Conns, place[c] \notin Serving,
         place'[c] \notin Serving \ {"request"},
         UNCHANGED <<currentRequest, currentMethod, currentUri, currentArgs,
                     currentHandler, responseHeaders>>,
         ServerTypes', \A d \in Conns \ {c} : Untouched(d), ThreadOf(c)',
         Server!Open(c)' =>
            Server!Open(c) \/ \A d \in Conns : ~Server!Open(d)
  PROVE  ServerInv'
  <1>1. ASSUME NEW d \in Conns \ {c}
        PROVE  ThreadOf(d)' /\ Members(d)'
    <2>1. d \in Conns /\ d # c /\ Untouched(d) /\ ThreadOf(d) /\ Members(d)
      BY DEF ServerInv
    <2>2. Members(d)'
      BY <2>1 DEF Members, Untouched
    <2> QED
      BY <2>1, <2>2, UntouchedThread
  <1>2. Members(c)'
    BY DEF Members, Serving, Given, GivenMethod, GivenUri, GivenArgs, Chosen,
           Replying
  <1>3. OneOpen'
    <2>1. \A d \in Conns \ {c} : Server!Open(d)' <=> Server!Open(d)
      BY UntouchedOpen
    <2>2. OneOpen
      BY DEF ServerInv
    <2> QED
      BY <2>1, <2>2 DEF OneOpen
  <1>4. Headers'
    <2>1. ASSUME \A d \in Conns : place'[d] # "send set"
          PROVE  responseHeaders' = <<>>
      <3>1. \A d \in Conns \ {c} : place[d] # "send set"
        BY <2>1 DEF Untouched
      <3>2. place[c] # "send set"
        BY DEF Serving, Given, GivenMethod, GivenUri, GivenArgs, Chosen,
               Replying
      <3> QED
        BY <3>1, <3>2 DEF ServerInv, Headers
    <2> QED
      BY <2>1 DEF Headers
  <1> QED
    BY <1>1, <1>2, <1>3, <1>4 DEF ServerInv

\* Where a step takes a thread, and the others.
LEMMA Going ==
  ASSUME ServerInv, NEW c \in Conns, NEW from, NEW to \in Places,
         Server!Goes(c, from, to)
  PROVE  /\ place[c] = from /\ place'[c] = to
         /\ place' \in [Conns -> Places]
         /\ \A d \in Conns \ {c} : place'[d] = place[d]
  BY DEF ServerInv, ServerTypes, Server!Goes

LEMMA ServerStarts ==
  ASSUME Server!Init
  PROVE  ServerInv
  <1>1. /\ req \in [Conns -> {Null}] /\ sent = [c \in Conns |-> "nothing"]
        /\ gone = [c \in Conns |-> FALSE] /\ refs = [c \in Conns |-> 0]
        /\ closed = [c \in Conns |-> 0] /\ place = [c \in Conns |-> "none"]
        /\ args = [c \in Conns |-> NoArg]
        /\ reply = [c \in Conns |-> Server!Pending]
        /\ currentRequest = Null /\ currentHandler = 0
        /\ responseHeaders = <<>>
    BY DEF Server!Init
  <1>2. ServerTypes
    <2>1. Len(Routes) \in Nat
      BY RouteTypes
    <2>2. /\ req \in [Conns -> Requests \cup {Null}]
          /\ sent \in [Conns -> {"nothing", "line", "head", "all"}]
          /\ gone \in [Conns -> BOOLEAN]
          /\ refs \in [Conns -> 0..2] /\ closed \in [Conns -> 0..1]
      BY <1>1
    <2>3. "none" \in Places
      BY PlacesAre
    <2>4. place \in [Conns -> Places]
      BY <1>1, <2>3
    <2> QED
      BY <1>1, <2>1, <2>2, <2>4
         DEF ServerTypes, ClientTypes, SocketTypes, ThreadTypes, MemberTypes
  <1>3. ASSUME NEW c \in Conns
        PROVE  ThreadOf(c) /\ Members(c)
    <2>1. place[c] = "none" /\ refs[c] = 0 /\ closed[c] = 0 /\ args[c] = NoArg
          /\ reply[c] = Server!Pending /\ req[c] = Null
      BY <1>1
    <2>2. ThreadOf(c)
      BY <2>1 DEF ThreadOf, Unasked, Serving, Given, GivenMethod, GivenUri,
                  GivenArgs, Chosen, Replying
    <2>3. Members(c)
      BY <2>1 DEF Members, Given, GivenMethod, GivenUri, GivenArgs, Chosen,
                  Replying
    <2> QED
      BY <2>2, <2>3
  <1>4. OneOpen /\ Headers
    BY <1>1 DEF OneOpen, Server!Open, Headers
  <1> QED
    BY <1>2, <1>3, <1>4 DEF ServerInv

-----------------------------------------------------------------------------
\* The clients.

LEMMA NobodyOpen ==
  ASSUME Server!Cardinality({d \in Conns : Server!Open(d)}) < 1
  PROVE  \A d \in Conns : ~Server!Open(d)
  <1> DEFINE S == {d \in Conns : Server!Open(d)}
  <1>1. IsFiniteSet(S)
    BY ServerAssumption, FS_Subset
  <1>2. Cardinality(S) \in Nat
    BY <1>1, FS_CardinalityType
  <1>3. Server!Cardinality(S) = Cardinality(S)
    BY DEF Cardinality, Server!Cardinality
  <1>4. Cardinality(S) = 0
    BY <1>2, <1>3
  <1>5. S = {}
    BY <1>1, <1>4, FS_EmptySet
  <1> QED
    BY <1>5

LEMMA Connects ==
  ASSUME ServerInv, MaxOpen = 1, NEW c \in Conns, NEW r \in Requests,
         Server!Connect(c, r)
  PROVE  ServerInv'
  <1>1. /\ place[c] = "none" /\ place' = [place EXCEPT ![c] = "queued"]
        /\ req' = [req EXCEPT ![c] = r]
        /\ UNCHANGED <<sent, gone, refs, closed, args, reply, currentRequest,
                       currentMethod, currentUri, currentArgs,
                       currentHandler, responseHeaders>>
    BY DEF Server!Connect, Server!sockets, Server!current
  <1>2. \A d \in Conns : ~Server!Open(d)
    <2>1. Server!Cardinality({d \in Conns : Server!Open(d)}) < 1
      BY DEF Server!Connect
    <2> QED
      BY ONLY <2>1, NobodyOpen
  <1>3. ServerTypes /\ ThreadOf(c)
    BY DEF ServerInv
  <1>4. ServerTypes'
    BY <1>1, <1>3, PlacesAre
       DEF ServerTypes, ClientTypes, SocketTypes, ThreadTypes, MemberTypes
  <1>5. place'[c] = "queued" /\ req'[c] = r
    BY <1>1, <1>3
       DEF ServerTypes, ClientTypes, SocketTypes, ThreadTypes, MemberTypes
  <1>6. \A d \in Conns \ {c} : Untouched(d)
    BY <1>1, <1>3
       DEF Untouched, ServerTypes, ClientTypes, SocketTypes, ThreadTypes,
           MemberTypes
  <1>7. ThreadOf(c)'
    <2>1. refs[c] = 0 /\ closed[c] = 0 /\ args[c] = NoArg
          /\ reply[c] = Server!Pending
      BY <1>1, <1>3 DEF ThreadOf, Unasked
    <2>2. UNCHANGED <<refs, closed, args, reply>>
      BY <1>1
    <2> QED
      BY <1>5, <2>1, <2>2 DEF ThreadOf, Unasked, Serving, Given, GivenMethod,
                              GivenUri, GivenArgs, Chosen, Replying
  <1>8. place[c] \notin Serving /\ place'[c] \notin Serving
    BY <1>1, <1>5 DEF Serving, Given, GivenMethod, GivenUri, GivenArgs,
                      Chosen, Replying
  <1> QED
    BY <1>1, <1>2, <1>4, <1>6, <1>7, <1>8, QuietThread

\* A client's own steps leave its thread where it is.
LEMMA ClientKeeps ==
  ASSUME ServerInv, NEW c \in Conns, ServerTypes',
         UNCHANGED <<req, refs, closed, place, args, reply, currentRequest,
                     currentMethod, currentUri, currentArgs, currentHandler,
                     responseHeaders>>,
         \A d \in Conns \ {c} : sent'[d] = sent[d] /\ gone'[d] = gone[d],
         place[c] \in Serving => Arrived(c)',
         Server!Open(c)' => Server!Open(c)
  PROVE  ServerInv'
  <1>1. ThreadOf(c)' /\ Members(c)'
    BY DEF ServerInv, ThreadOf, Members
  <1>2. \A d \in Conns \ {c} : Untouched(d)
    BY DEF Untouched
  <1>3. Headers'
    BY DEF ServerInv, Headers
  <1>4. CASE place[c] \in Serving
    BY <1>1, <1>2, <1>3, <1>4, ServingStep
  <1>5. CASE place[c] \notin Serving
    BY <1>1, <1>2, <1>5, QuietThread
  <1> QED
    BY <1>4, <1>5

LEMMA Sends ==
  ASSUME ServerInv, NEW c \in Conns, Server!Send(c)
  PROVE  ServerInv'
  <1> DEFINE to == Server!Rest[sent[c]]
  <1>1. /\ ~gone[c] /\ sent[c] \in {"nothing", "line", "head"}
        /\ place[c] # "none"
        /\ sent' = [sent EXCEPT ![c] = to]
        /\ UNCHANGED <<req, gone, refs, closed, place, args, reply,
                       currentRequest, currentMethod, currentUri,
                       currentArgs, currentHandler, responseHeaders>>
    BY DEF Server!Send, Server!sockets, Server!current, Server!Rest
  <1>2. to \in {"nothing", "line", "head", "all"}
    BY <1>1 DEF Server!Rest
  <1> HIDE DEF to
  <1>3. ServerTypes /\ ThreadOf(c)
    BY DEF ServerInv
  <1>4. ServerTypes' /\ \A d \in Conns \ {c} : sent'[d] = sent[d]
    BY <1>1, <1>2, <1>3
       DEF ServerTypes, ClientTypes, SocketTypes, ThreadTypes, MemberTypes
  <1>5. place[c] \in Serving => Arrived(c)'
    BY <1>1, <1>3 DEF ThreadOf, Arrived
  <1>6. Server!Open(c)' => Server!Open(c)
    BY <1>1 DEF Server!Open, Server!Stuck
  <1> QED
    BY <1>1, <1>4, <1>5, <1>6, ClientKeeps

LEMMA Leaves ==
  ASSUME ServerInv, NEW c \in Conns, Server!Leave(c)
  PROVE  ServerInv'
  <1>1. /\ place[c] \in {"queued", "line", "head", "body"} /\ ~gone[c]
        /\ gone' = [gone EXCEPT ![c] = TRUE]
        /\ UNCHANGED <<req, sent, refs, closed, place, args, reply,
                       currentRequest, currentMethod, currentUri,
                       currentArgs, currentHandler, responseHeaders>>
    BY DEF Server!Leave, Server!sockets, Server!current
  <1>2. ServerTypes
    BY DEF ServerInv
  <1>3. ServerTypes' /\ \A d \in Conns \ {c} : gone'[d] = gone[d]
    BY <1>1, <1>2
       DEF ServerTypes, ClientTypes, SocketTypes, ThreadTypes, MemberTypes
  <1>4. place[c] \notin Serving
    BY <1>1 DEF Serving, Given, GivenMethod, GivenUri, GivenArgs, Chosen,
                Replying
  <1>5. Server!Open(c)
    BY <1>1 DEF Server!Open, Server!Stuck
  <1> QED
    BY <1>1, <1>3, <1>4, <1>5, ClientKeeps

-----------------------------------------------------------------------------
\* The threads, before and after they use the members.

\* What such a step has to show of its own connection.
LEMMA OutsideStep ==
  ASSUME ServerInv, NEW c \in Conns, NEW from, NEW to,
         Server!Goes(c, from, to),
         from \in {"queued", "line", "head", "body", "reply", "destroy"},
         to \in {"line", "head", "body", "request", "destroy", "ended"},
         UNCHANGED <<req, sent, gone, currentRequest, currentMethod,
                     currentUri, currentArgs, currentHandler,
                     responseHeaders>>,
         ServerTypes',
         \A d \in Conns \ {c} :
            /\ refs'[d] = refs[d] /\ closed'[d] = closed[d]
            /\ args'[d] = args[d] /\ reply'[d] = reply[d],
         from # "body" \/ sent[c] = "all",
         ThreadOf(c)'
  PROVE  ServerInv'
  <1>1. /\ place[c] = from /\ place'[c] = to
        /\ \A d \in Conns \ {c} : place'[d] = place[d]
    BY PlacesAre, Going
  <1>2. place[c] \notin Serving /\ place'[c] \notin Serving \ {"request"}
    BY <1>1 DEF Serving, Given, GivenMethod, GivenUri, GivenArgs, Chosen,
                Replying
  <1>3. \A d \in Conns \ {c} : Untouched(d)
    BY <1>1 DEF Untouched
  <1>4. Server!Open(c)
    BY <1>1 DEF Server!Open, Server!Stuck
  <1> QED
    BY <1>2, <1>3, <1>4, QuietThread

LEMMA Accepts ==
  ASSUME ServerInv, NEW c \in Conns, Server!Accept(c)
  PROVE  ServerInv'
  <1>1. /\ Server!Goes(c, "queued", "line") /\ refs' = [refs EXCEPT ![c] = 2]
        /\ UNCHANGED <<req, sent, gone, closed, args, reply, currentRequest,
                       currentMethod, currentUri, currentArgs,
                       currentHandler, responseHeaders>>
    BY DEF Server!Accept, Server!clients, Server!current
  <1>2. ServerTypes /\ ThreadOf(c)
    BY DEF ServerInv
  <1>3. /\ place[c] = "queued" /\ place'[c] = "line"
        /\ place' \in [Conns -> Places]
    BY <1>1, PlacesAre, Going
  <1>4. ServerTypes'
    BY <1>1, <1>2, <1>3
       DEF ServerTypes, ClientTypes, SocketTypes, ThreadTypes, MemberTypes
  <1>5. refs'[c] = 2 /\ \A d \in Conns \ {c} : refs'[d] = refs[d]
    BY <1>1, <1>2
       DEF ServerTypes, ClientTypes, SocketTypes, ThreadTypes, MemberTypes
  <1>6. ThreadOf(c)'
    BY <1>1, <1>2, <1>3, <1>5 DEF ThreadOf, Unasked, Serving, Given,
       GivenMethod, GivenUri, GivenArgs, Chosen, Replying
  <1> QED
    BY <1>1, <1>4, <1>5, <1>6, OutsideStep

LEMMA ReadsLine ==
  ASSUME ServerInv, NEW c \in Conns, Server!ReadLine(c)
  PROVE  ServerInv'
  <1>1. PICK to \in {"destroy", "head"} : Server!Goes(c, "line", to)
    BY DEF Server!ReadLine
  <1>2. UNCHANGED <<req, sent, gone, refs, closed, args, reply, currentRequest,
                    currentMethod, currentUri, currentArgs, currentHandler,
                    responseHeaders>>
    BY DEF Server!ReadLine, Server!clients, Server!sockets, Server!current
  <1>3. ServerTypes /\ ThreadOf(c)
    BY DEF ServerInv
  <1>4. /\ place[c] = "line" /\ place'[c] = to
        /\ place' \in [Conns -> Places]
    BY <1>1, PlacesAre, Going
  <1>5. ServerTypes'
    BY <1>2, <1>3, <1>4
       DEF ServerTypes, ClientTypes, SocketTypes, ThreadTypes, MemberTypes
  <1>6. ThreadOf(c)'
    BY <1>2, <1>3, <1>4 DEF ThreadOf, Unasked, Serving, Given, GivenMethod,
       GivenUri, GivenArgs, Chosen, Replying
  <1> QED
    BY <1>1, <1>2, <1>5, <1>6, OutsideStep

LEMMA ReadsHead ==
  ASSUME ServerInv, NEW c \in Conns, Server!ReadHead(c)
  PROVE  ServerInv'
  <1>1. PICK to \in {"body", "request"} :
             /\ Server!Goes(c, "head", to)
             /\ to = "request" => sent[c] = "line"
                                    \/ ~Server!HasBody(req[c])
    BY DEF Server!ReadHead
  <1>2. UNCHANGED <<req, sent, gone, refs, closed, args, reply, currentRequest,
                    currentMethod, currentUri, currentArgs, currentHandler,
                    responseHeaders>>
    BY DEF Server!ReadHead, Server!clients, Server!sockets, Server!current
  <1>3. ServerTypes /\ ThreadOf(c)
    BY DEF ServerInv
  <1>4. /\ place[c] = "head" /\ place'[c] = to
        /\ place' \in [Conns -> Places]
    BY <1>1, PlacesAre, Going
  <1>5. ServerTypes'
    BY <1>2, <1>3, <1>4
       DEF ServerTypes, ClientTypes, SocketTypes, ThreadTypes, MemberTypes
  <1>6. to = "request" => Arrived(c)
    <2>1. args[c] = NoArg
      BY <1>3, <1>4 DEF ThreadOf, Unasked
    <2>2. sent[c] \in {"head", "all"} \/ gone[c]
      BY DEF Server!ReadHead
    <2>3. CASE ~Server!HasBody(req[c])
      BY <2>1, <2>3 DEF Server!HasBody, Arrived
    <2>4. CASE sent[c] = "line"
      BY <2>1, <2>2, <2>4 DEF Arrived
    <2> QED
      BY <1>1, <2>3, <2>4
  <1>7. ThreadOf(c)'
    BY <1>2, <1>3, <1>4, <1>6 DEF ThreadOf, Arrived, Unasked, Serving, Given,
       GivenMethod, GivenUri, GivenArgs, Chosen, Replying
  <1> QED
    BY <1>1, <1>2, <1>5, <1>7, OutsideStep

LEMMA ReadsBody ==
  ASSUME ServerInv, NEW c \in Conns, Server!ReadBody(c)
  PROVE  ServerInv'
  <1>1. /\ Server!Goes(c, "body", "request") /\ sent[c] = "all"
        /\ args' = [args EXCEPT ![c] = req[c].arg]
        /\ UNCHANGED <<req, sent, gone, refs, closed, reply, currentRequest,
                       currentMethod, currentUri, currentArgs,
                       currentHandler, responseHeaders>>
    BY DEF Server!ReadBody, Server!clients, Server!sockets, Server!current
  <1>2. ServerTypes /\ ThreadOf(c)
    BY DEF ServerInv
  <1>3. /\ place[c] = "body" /\ place'[c] = "request"
        /\ place' \in [Conns -> Places]
    BY <1>1, PlacesAre, Going
  <1>4. ServerTypes'
    BY <1>1, <1>2, <1>3
       DEF ServerTypes, ClientTypes, SocketTypes, ThreadTypes, MemberTypes
  <1>5. args'[c] = req[c].arg /\ \A d \in Conns \ {c} : args'[d] = args[d]
    BY <1>1, <1>2 DEF ServerTypes, ThreadTypes
  <1>6. ThreadOf(c)'
    BY <1>1, <1>2, <1>3, <1>5 DEF ThreadOf, Arrived, Unasked, Serving, Given,
       GivenMethod, GivenUri, GivenArgs, Chosen, Replying
  <1> QED
    BY <1>1, <1>4, <1>5, <1>6, OutsideStep

LEMMA Replies ==
  ASSUME ServerInv, NEW c \in Conns, Server!Reply(c)
  PROVE  ServerInv'
  <1>1. /\ Server!Goes(c, "reply", "destroy")
        /\ closed' = [closed EXCEPT ![c] = closed[c] + 1]
        /\ UNCHANGED <<req, sent, gone, refs, args, reply, currentRequest,
                       currentMethod, currentUri, currentArgs,
                       currentHandler, responseHeaders>>
    BY DEF Server!Reply, Server!clients, Server!current
  <1>2. ServerTypes /\ ThreadOf(c)
    BY DEF ServerInv
  <1>3. /\ place[c] = "reply" /\ place'[c] = "destroy"
        /\ place' \in [Conns -> Places]
    BY <1>1, PlacesAre, Going
  <1>4. closed[c] = 0
    BY <1>2, <1>3 DEF ThreadOf
  <1>5. closed' = [closed EXCEPT ![c] = 1]
    BY <1>1, <1>4
  <1>6. ServerTypes'
    BY <1>1, <1>2, <1>3, <1>5
       DEF ServerTypes, ClientTypes, SocketTypes, ThreadTypes, MemberTypes
  <1>7. closed'[c] = 1 /\ \A d \in Conns \ {c} : closed'[d] = closed[d]
    BY <1>2, <1>5
       DEF ServerTypes, ClientTypes, SocketTypes, ThreadTypes, MemberTypes
  <1>8. ThreadOf(c)'
    BY <1>1, <1>2, <1>3, <1>7 DEF ThreadOf, Unasked, Serving, Given,
       GivenMethod, GivenUri, GivenArgs, Chosen, Replying
  <1> QED
    BY <1>1, <1>6, <1>7, <1>8, OutsideStep

LEMMA Destroys ==
  ASSUME ServerInv, NEW c \in Conns, Server!Destroy(c)
  PROVE  ServerInv'
  <1>1. /\ Server!Goes(c, "destroy", "ended")
        /\ refs' = [refs EXCEPT ![c] = refs[c] - 1]
        /\ closed' = [closed EXCEPT
                        ![c] = IF refs[c] = 1 THEN closed[c] + 1
                                              ELSE closed[c]]
        /\ UNCHANGED <<req, sent, gone, args, reply, currentRequest,
                       currentMethod, currentUri, currentArgs,
                       currentHandler, responseHeaders>>
    BY DEF Server!Destroy, Server!clients, Server!current
  <1>2. ServerTypes /\ ThreadOf(c)
    BY DEF ServerInv
  <1>3. /\ place[c] = "destroy" /\ place'[c] = "ended"
        /\ place' \in [Conns -> Places]
    BY <1>1, PlacesAre, Going
  <1>4. refs[c] = 2
    BY <1>2, <1>3 DEF ThreadOf
  <1>5. refs' = [refs EXCEPT ![c] = 1] /\ closed' = closed
    BY <1>1, <1>2, <1>4
       DEF ServerTypes, ClientTypes, SocketTypes, ThreadTypes, MemberTypes
  <1>6. ServerTypes'
    BY <1>1, <1>2, <1>3, <1>5
       DEF ServerTypes, ClientTypes, SocketTypes, ThreadTypes, MemberTypes
  <1>7. refs'[c] = 1 /\ \A d \in Conns \ {c} : refs'[d] = refs[d]
    BY <1>2, <1>5
       DEF ServerTypes, ClientTypes, SocketTypes, ThreadTypes, MemberTypes
  <1>8. ThreadOf(c)'
    BY <1>1, <1>2, <1>3, <1>5, <1>7 DEF ThreadOf, Unasked, Serving, Given,
       GivenMethod, GivenUri, GivenArgs, Chosen, Replying
  <1> QED
    BY <1>1, <1>5, <1>6, <1>7, <1>8, OutsideStep

-----------------------------------------------------------------------------
\* The threads, while they use the members.

\* What such a step has to show.
LEMMA ServedStep ==
  ASSUME ServerInv, NEW c \in Conns, NEW from, NEW to,
         Server!Goes(c, from, to),
         from \in Serving, to \in (Serving \ {"request"}) \cup {"reply"},
         from = "clear" => to = "reply",
         UNCHANGED <<req, sent, gone, refs, closed, args>>,
         ThreadTypes', MemberTypes',
         \A d \in Conns \ {c} : reply'[d] = reply[d],
         reply'[c] = IF to \in {"clear", "reply"}
                     THEN Server!Promised(req[c]) ELSE reply[c],
         Members(c)', Headers'
  PROVE  ServerInv'
  <1>1. to \in Places
    BY DEF Places
  <1>2. /\ place[c] = from /\ place'[c] = to /\ place' \in [Conns -> Places]
        /\ \A d \in Conns \ {c} : place'[d] = place[d]
    BY <1>1, Going
  <1>3. ServerTypes /\ ThreadOf(c)
    BY DEF ServerInv
  <1>4. ServerTypes'
    BY <1>2, <1>3 DEF ServerTypes, ClientTypes, SocketTypes
  <1>5. from \notin {"none", "queued", "destroy", "ended", "reply"}
          /\ to \notin {"none", "queued", "destroy", "ended"} \cup Unasked
          /\ "reply" \notin Serving
    BY DEF Unasked, Serving, Given, GivenMethod, GivenUri, GivenArgs, Chosen,
           Replying
  <1>6. refs[c] = 2 /\ closed[c] = 0 /\ req[c] \in Requests /\ Arrived(c)
    BY <1>2, <1>3, <1>5 DEF ThreadOf
  <1>7. to \notin {"clear", "reply"} => reply[c] = Server!Pending
    BY <1>2, <1>3 DEF ThreadOf
  <1>8. ThreadOf(c)'
    <2>1. /\ refs'[c] = 2 /\ closed'[c] = 0 /\ req'[c] \in Requests
          /\ Arrived(c)'
      BY <1>6 DEF Arrived
    <2>2. to \in Serving \ {"clear"} => reply'[c] = Server!Pending
      BY <1>5, <1>7
    <2>3. to \in {"clear", "reply"} => reply'[c] = Server!Promised(req'[c])
      OBVIOUS
    <2> QED
      BY <1>2, <1>5, <2>1, <2>2, <2>3 DEF ThreadOf
  <1>9. \A d \in Conns \ {c} : Untouched(d)
    BY <1>2 DEF Untouched
  <1> QED
    BY <1>2, <1>4, <1>8, <1>9, ServingStep

LEMMA SetsRequest ==
  ASSUME ServerInv, NEW c \in Conns, Server!SetRequest(c)
  PROVE  ServerInv'
  <1>1. /\ Server!Goes(c, "request", "method") /\ currentRequest' = c
        /\ UNCHANGED <<req, sent, gone, refs, closed, args, reply,
                       currentMethod, currentUri, currentArgs,
                       currentHandler, responseHeaders>>
    BY DEF Server!SetRequest, Server!clients, Server!sockets
  <1>2. /\ place[c] = "request" /\ place'[c] = "method"
        /\ \A d \in Conns \ {c} : place'[d] = place[d]
    BY <1>1, PlacesAre, Going
  <1>3. ServerTypes
    BY DEF ServerInv
  <1>4. MemberTypes' /\ ThreadTypes'
    BY <1>1, <1>3 DEF ServerTypes, MemberTypes, ThreadTypes
  <1>5. Members(c)'
    BY <1>1, <1>2 DEF Members, Given, GivenMethod, GivenUri, GivenArgs,
                      Chosen, Replying
  <1>6. Headers'
    BY <1>1, <1>2 DEF ServerInv, Headers
  <1> QED
    BY <1>1, <1>4, <1>5, <1>6, ServedStep DEF Serving, Given

LEMMA SetsMethod ==
  ASSUME ServerInv, NEW c \in Conns, Server!SetMethod(c)
  PROVE  ServerInv'
  <1>1. /\ Server!Goes(c, "method", "uri") /\ currentMethod' = req[c].method
        /\ UNCHANGED <<req, sent, gone, refs, closed, args, reply,
                       currentRequest, currentUri, currentArgs,
                       currentHandler, responseHeaders>>
    BY DEF Server!SetMethod, Server!clients, Server!sockets
  <1>2. /\ place[c] = "method" /\ place'[c] = "uri"
        /\ \A d \in Conns \ {c} : place'[d] = place[d]
    BY <1>1, PlacesAre, Going
  <1>3. ServerTypes /\ Members(c)
    BY DEF ServerInv
  <1>4. MemberTypes' /\ ThreadTypes'
    BY <1>1, <1>3 DEF ServerTypes, MemberTypes, ThreadTypes
  <1>5. Members(c)'
    BY <1>1, <1>2, <1>3 DEF Members, Given, GivenMethod, GivenUri, GivenArgs,
                            Chosen, Replying
  <1>6. Headers'
    BY <1>1, <1>2 DEF ServerInv, Headers
  <1> QED
    BY <1>1, <1>4, <1>5, <1>6, ServedStep DEF Serving, Given, GivenMethod

LEMMA SetsUri ==
  ASSUME ServerInv, NEW c \in Conns, Server!SetUri(c)
  PROVE  ServerInv'
  <1>1. /\ Server!Goes(c, "uri", "args") /\ currentUri' = req[c].uri
        /\ UNCHANGED <<req, sent, gone, refs, closed, args, reply,
                       currentRequest, currentMethod, currentArgs,
                       currentHandler, responseHeaders>>
    BY DEF Server!SetUri, Server!clients, Server!sockets
  <1>2. /\ place[c] = "uri" /\ place'[c] = "args"
        /\ \A d \in Conns \ {c} : place'[d] = place[d]
    BY <1>1, PlacesAre, Going
  <1>3. ServerTypes /\ Members(c)
    BY DEF ServerInv
  <1>4. MemberTypes' /\ ThreadTypes'
    BY <1>1, <1>3 DEF ServerTypes, MemberTypes, ThreadTypes
  <1>5. Members(c)'
    BY <1>1, <1>2, <1>3 DEF Members, Given, GivenMethod, GivenUri, GivenArgs,
                            Chosen, Replying
  <1>6. Headers'
    BY <1>1, <1>2 DEF ServerInv, Headers
  <1> QED
    BY <1>1, <1>4, <1>5, <1>6, ServedStep
       DEF Serving, Given, GivenMethod, GivenUri

LEMMA SetsArgs ==
  ASSUME ServerInv, NEW c \in Conns, Server!SetArgs(c)
  PROVE  ServerInv'
  <1>1. /\ Server!Goes(c, "args", "find") /\ currentArgs' = args[c]
        /\ UNCHANGED <<req, sent, gone, refs, closed, args, reply,
                       currentRequest, currentMethod, currentUri,
                       currentHandler, responseHeaders>>
    BY DEF Server!SetArgs, Server!clients, Server!sockets
  <1>2. /\ place[c] = "args" /\ place'[c] = "find"
        /\ \A d \in Conns \ {c} : place'[d] = place[d]
    BY <1>1, PlacesAre, Going
  <1>3. ServerTypes /\ Members(c)
    BY DEF ServerInv
  <1>4. MemberTypes' /\ ThreadTypes'
    BY <1>1, <1>3 DEF ServerTypes, MemberTypes, ThreadTypes
  <1>5. Members(c)'
    BY <1>1, <1>2, <1>3 DEF Members, Given, GivenMethod, GivenUri, GivenArgs,
                            Chosen, Replying
  <1>6. Headers'
    BY <1>1, <1>2 DEF ServerInv, Headers
  <1> QED
    BY <1>1, <1>4, <1>5, <1>6, ServedStep
       DEF Serving, Given, GivenMethod, GivenUri, GivenArgs

\* No page is promised where no handler can be found.
LEMMA NothingPromised ==
  ASSUME NEW r, \A j \in 1..Len(Routes) :
                   ~Server!CanHandle(Routes[j], r.method, r.uri)
  PROVE  Server!Promised(r)
           = [status |-> 404, headers |-> <<>>, answer |-> r.uri]
  <1>1. ~ \E j \in DOMAIN Routes :
              Server!CanHandle(Routes[j], r.method, r.uri)
    BY RouteTypes
  <1> QED
    BY <1>1 DEF Server!Promised, Server!Asks

\* What is promised is what the handler found makes of the request.
LEMMA WhatIsPromised ==
  ASSUME NEW r \in Requests, NEW i \in 1..Len(Routes),
         Server!CanHandle(Routes[i], r.method, r.uri)
  PROVE  /\ Routes[i].does = "report" =>
              Server!Promised(r)
                = [status |-> 200, headers |-> <<>>, answer |-> "OK"]
         /\ Routes[i].does = "page" =>
              Server!Promised(r) = [status |-> 200, headers |-> <<>>,
                                    answer |-> Server!Page(r.uri)]
         /\ Routes[i].does = "set" =>
              Server!Promised(r)
                = [status |-> 302, headers |-> <<"Location">>, answer |-> "/"]
  <1> DEFINE Some(does) ==
               \E j \in DOMAIN Routes :
                  /\ Server!CanHandle(Routes[j], r.method, r.uri)
                  /\ Routes[j].does = does
  <1>1. i \in DOMAIN Routes
    BY RouteTypes
  <1>2. \A does : Some(does) <=> does = Routes[i].does
    BY <1>1, ServerAssumption
  <1>3. Server!Promised(r) =
          CASE Some("report") ->
                 [status |-> 200, headers |-> <<>>, answer |-> "OK"]
            [] Some("page") -> [status |-> 200, headers |-> <<>>,
                                answer |-> Server!Page(r.uri)]
            [] Some("set") ->
                 [status |-> 302, headers |-> <<"Location">>, answer |-> "/"]
            [] OTHER -> [status |-> 404, headers |-> <<>>, answer |-> r.uri]
    BY DEF Server!Promised, Server!Asks
  <1> HIDE DEF Some
  <1> QED
    BY <1>2, <1>3

LEMMA Finds ==
  ASSUME ServerInv, NEW c \in Conns, Server!Find(c)
  PROVE  ServerInv'
  <1> DEFINE i == Server!FirstMatch(currentMethod, currentUri)
             to == IF i = 0 THEN "clear" ELSE "handle"
             answer == [status |-> 404, headers |-> <<>>,
                        answer |-> req[c].uri]
  <1>1. /\ Server!Goes(c, "find", to) /\ currentHandler' = i
        /\ IF i = 0
             THEN reply' = [reply EXCEPT
                              ![c] = [status |-> 404,
                                      headers |-> reply[c].headers,
                                      answer |-> req[c].uri]]
             ELSE reply' = reply
        /\ UNCHANGED <<req, sent, gone, refs, closed, args, currentRequest,
                       currentMethod, currentUri, currentArgs,
                       responseHeaders>>
    BY DEF Server!Find, Server!Answers, Server!clients, Server!sockets
  <1>2. to \in Places
    BY PlacesAre
  <1>3. /\ place[c] = "find" /\ place'[c] = to
        /\ \A d \in Conns \ {c} : place'[d] = place[d]
    BY <1>1, <1>2, Going
  <1>4. ServerTypes /\ ThreadOf(c) /\ Members(c)
    BY DEF ServerInv
  <1>5. /\ currentRequest = c /\ currentMethod = req[c].method
        /\ currentUri = req[c].uri /\ currentArgs = args[c]
        /\ reply[c] = Server!Pending
    BY <1>3, <1>4 DEF ThreadOf, Members, Serving, Given, GivenMethod,
                      GivenUri, GivenArgs
  <1>6. \/ /\ i = 0
           /\ \A j \in 1..Len(Routes) :
                ~Server!CanHandle(Routes[j], req[c].method, req[c].uri)
        \/ /\ i \in 1..Len(Routes)
           /\ Server!CanHandle(Routes[i], req[c].method, req[c].uri)
    BY <1>5, Found
  <1> HIDE DEF i
  <1>7. MemberTypes'
    BY <1>1, <1>4, <1>6, RouteTypes DEF ServerTypes, MemberTypes
  <1>8. /\ ThreadTypes' /\ \A d \in Conns \ {c} : reply'[d] = reply[d]
        /\ i = 0 => reply'[c] = answer
        /\ i # 0 => reply'[c] = reply[c]
    <2>1. CASE i = 0
      <3>1. Server!Pending.headers = <<>>
        BY DEF Server!Pending
      <3>2. reply' = [reply EXCEPT ![c] = answer]
        BY <1>1, <1>5, <2>1, <3>1
      <3> QED
        BY <1>1, <1>4, <2>1, <3>2 DEF ServerTypes, ThreadTypes
    <2>2. CASE i # 0
      BY <1>1, <1>4, <2>2 DEF ServerTypes, ThreadTypes
    <2> QED
      BY <2>1, <2>2
  <1>9. reply'[c] = IF to \in {"clear", "reply"}
                    THEN Server!Promised(req[c]) ELSE reply[c]
    BY <1>6, <1>8, NothingPromised
  <1>10. Members(c)'
    BY <1>1, <1>3, <1>5, <1>6 DEF Members, Given, GivenMethod, GivenUri,
                                  GivenArgs, Chosen, Replying
  <1>11. Headers'
    BY <1>1, <1>3 DEF ServerInv, Headers
  <1>12. to \in Serving \ {"request"}
    BY DEF Serving, Given, GivenMethod, GivenUri, GivenArgs, Chosen
  <1>13. "find" \in Serving
    BY DEF Serving, Given, GivenMethod, GivenUri, GivenArgs
  <1> HIDE DEF to
  <1> QED
    BY <1>1, <1>7, <1>8, <1>9, <1>10, <1>11, <1>12, <1>13, ServedStep

LEMMA Handles ==
  ASSUME ServerInv, NEW c \in Conns, Server!Handle(c)
  PROVE  ServerInv'
  <1> DEFINE to == Routes[currentHandler].does
  <1>1. ServerTypes /\ Members(c)
    BY DEF ServerInv
  <1>2. place[c] = "handle"
    BY DEF Server!Handle, Server!Goes
  <1>3. /\ currentRequest = c /\ currentMethod = req[c].method
        /\ currentUri = req[c].uri /\ currentArgs = args[c]
        /\ currentHandler \in 1..Len(Routes)
        /\ Server!CanHandle(Routes[currentHandler], req[c].method, req[c].uri)
    BY <1>1, <1>2 DEF Members, Given, GivenMethod, GivenUri, GivenArgs, Chosen
  <1>4. Server!Goes(c, "handle", to) /\ UNCHANGED reply
    BY <1>3 DEF Server!Handle
  <1>5. UNCHANGED <<req, sent, gone, refs, closed, args, currentRequest,
                    currentMethod, currentUri, currentArgs, currentHandler,
                    responseHeaders>>
    BY DEF Server!Handle, Server!clients, Server!sockets, Server!current
  <1>6. to \in {"report", "page", "set"}
    BY <1>3, RouteTypes
  <1>7. to \in Places
    BY <1>6, PlacesAre
  <1>8. place'[c] = to /\ \A d \in Conns \ {c} : place'[d] = place[d]
    BY <1>4, <1>7, Going
  <1>9. MemberTypes' /\ ThreadTypes'
    BY <1>1, <1>4, <1>5 DEF ServerTypes, MemberTypes, ThreadTypes
  <1>10. Members(c)'
    BY <1>3, <1>5, <1>6, <1>8 DEF Members, Given, GivenMethod, GivenUri,
                                  GivenArgs, Chosen, Replying
  <1>11. Headers'
    BY <1>2, <1>5, <1>8 DEF ServerInv, Headers
  <1>12. to \in Serving \ {"request"} /\ "handle" \in Serving
           /\ to \notin {"clear", "reply"}
    BY <1>6 DEF Serving, Given, GivenMethod, GivenUri, GivenArgs, Chosen,
                Replying
  <1> HIDE DEF to
  <1> QED
    BY <1>4, <1>5, <1>9, <1>10, <1>11, <1>12, ServedStep

LEMMA Reports ==
  ASSUME ServerInv, NEW c \in Conns, Server!Report(c)
  PROVE  ServerInv'
  <1>1. /\ Server!Goes(c, "report", "send report")
        /\ UNCHANGED <<req, sent, gone, refs, closed, args, reply,
                       currentRequest, currentMethod, currentUri,
                       currentArgs, currentHandler, responseHeaders>>
    BY DEF Server!Report, Server!clients, Server!sockets, Server!current
  <1>2. /\ place[c] = "report" /\ place'[c] = "send report"
        /\ \A d \in Conns \ {c} : place'[d] = place[d]
    BY <1>1, PlacesAre, Going
  <1>3. ServerTypes /\ Members(c)
    BY DEF ServerInv
  <1>4. MemberTypes' /\ ThreadTypes'
    BY <1>1, <1>3 DEF ServerTypes, MemberTypes, ThreadTypes
  <1>5. Members(c)'
    BY <1>1, <1>2, <1>3 DEF Members, Given, GivenMethod, GivenUri, GivenArgs,
                            Chosen, Replying
  <1>6. Headers'
    BY <1>1, <1>2 DEF ServerInv, Headers
  <1>7. {"report", "send report"} \subseteq Serving \ {"request", "clear"}
    BY DEF Serving, Given, GivenMethod, GivenUri, GivenArgs, Chosen, Replying
  <1> QED
    BY <1>1, <1>4, <1>5, <1>6, <1>7, ServedStep

LEMMA Renders ==
  ASSUME ServerInv, NEW c \in Conns, Server!Render(c)
  PROVE  ServerInv'
  <1>1. /\ Server!Goes(c, "page", "send page")
        /\ UNCHANGED <<req, sent, gone, refs, closed, args, reply,
                       currentRequest, currentMethod, currentUri,
                       currentArgs, currentHandler, responseHeaders>>
    BY DEF Server!Render, Server!clients, Server!sockets, Server!current
  <1>2. /\ place[c] = "page" /\ place'[c] = "send page"
        /\ \A d \in Conns \ {c} : place'[d] = place[d]
    BY <1>1, PlacesAre, Going
  <1>3. ServerTypes /\ Members(c)
    BY DEF ServerInv
  <1>4. MemberTypes' /\ ThreadTypes'
    BY <1>1, <1>3 DEF ServerTypes, MemberTypes, ThreadTypes
  <1>5. Members(c)'
    BY <1>1, <1>2, <1>3 DEF Members, Given, GivenMethod, GivenUri, GivenArgs,
                            Chosen, Replying
  <1>6. Headers'
    BY <1>1, <1>2 DEF ServerInv, Headers
  <1>7. {"page", "send page"} \subseteq Serving \ {"request", "clear"}
    BY DEF Serving, Given, GivenMethod, GivenUri, GivenArgs, Chosen, Replying
  <1> QED
    BY <1>1, <1>4, <1>5, <1>6, <1>7, ServedStep

LEMMA Redirects ==
  ASSUME ServerInv, NEW c \in Conns, Server!Redirect(c)
  PROVE  ServerInv'
  <1>1. /\ Server!Goes(c, "set", "send set")
        /\ responseHeaders' = Append(responseHeaders, "Location")
        /\ UNCHANGED <<req, sent, gone, refs, closed, args, reply,
                       currentRequest, currentMethod, currentUri,
                       currentArgs, currentHandler>>
    BY DEF Server!Redirect, Server!clients, Server!sockets, Server!current
  <1>2. /\ place[c] = "set" /\ place'[c] = "send set"
        /\ \A d \in Conns \ {c} : place'[d] = place[d]
    BY <1>1, PlacesAre, Going
  <1>3. ServerTypes /\ Members(c) /\ OneOpen /\ Headers
    BY DEF ServerInv
  <1>4. {"set", "send set"} \subseteq Serving \ {"request", "clear"}
    BY DEF Serving, Given, GivenMethod, GivenUri, GivenArgs, Chosen, Replying
  <1>5. responseHeaders = <<>>
    <2>1. \A d \in Conns \ {c} : place[d] \notin Serving
      BY <1>2, <1>3, <1>4, ServingAlone
    <2> QED
      BY <1>2, <1>3, <1>4, <2>1 DEF Headers
  <1>6. responseHeaders' = <<"Location">>
    <2>1. responseHeaders' = Append(<<>>, "Location")
      BY <1>1, <1>5
    <2> QED
      BY <2>1
  <1>7. MemberTypes' /\ ThreadTypes'
    <2>1. Len(<<"Location">>) <= 1
      OBVIOUS
    <2>2. Len(responseHeaders') <= 1
      BY <1>6, <2>1
    <2> QED
      BY <1>1, <1>3, <2>2 DEF ServerTypes, MemberTypes, ThreadTypes
  <1>8. Members(c)'
    BY <1>1, <1>2, <1>3, <1>6 DEF Members, Given, GivenMethod, GivenUri,
                                  GivenArgs, Chosen, Replying
  <1>9. Headers'
    BY <1>2 DEF Headers
  <1> QED
    BY <1>1, <1>4, <1>7, <1>8, <1>9, ServedStep

LEMMA NoHeader ==
  ASSUME NEW s, s = <<>>
  PROVE  Len(s) <= 1
  OBVIOUS

LEMMA SendsReply ==
  ASSUME ServerInv, NEW c \in Conns, Server!SendReply(c)
  PROVE  ServerInv'
  <1>1. PICK from \in {"send report", "send page", "send set"} :
             Server!Goes(c, from, "clear")
    BY DEF Server!SendReply
  <1>2. /\ from \in Serving \ {"request", "clear"} /\ "clear" \in Serving
        /\ from \in Chosen
    BY DEF Serving, Given, GivenMethod, GivenUri, GivenArgs, Chosen, Replying
  <1>3. ServerTypes /\ ThreadOf(c) /\ Members(c) /\ OneOpen /\ Headers
    BY DEF ServerInv
  <1>4. /\ place[c] = from /\ place'[c] = "clear"
        /\ \A d \in Conns \ {c} : place'[d] = place[d]
    BY <1>1, PlacesAre, Going
  <1>5. /\ UNCHANGED <<req, sent, gone, refs, closed, args, currentRequest,
                       currentMethod, currentUri, currentArgs,
                       currentHandler>>
        /\ responseHeaders' = <<>>
    BY DEF Server!SendReply, Server!clients, Server!sockets, Server!current
  <1>6. /\ currentRequest = c /\ currentUri = req[c].uri
        /\ currentHandler \in 1..Len(Routes) /\ req[c] \in Requests
        /\ Server!CanHandle(Routes[currentHandler], req[c].method, req[c].uri)
    BY <1>2, <1>3, <1>4 DEF ThreadOf, Members, Given, GivenMethod, GivenUri,
                            GivenArgs
  <1>7. from # "send set" => responseHeaders = <<>>
    <2>1. \A d \in Conns \ {c} : place[d] \notin Serving
      BY <1>2, <1>3, <1>4, ServingAlone
    <2>2. "send set" \in Serving
      BY DEF Serving, Given, GivenMethod, GivenUri, GivenArgs, Chosen,
             Replying
    <2> QED
      BY <1>3, <1>4, <2>1, <2>2 DEF Headers
  <1>8. reply' = [reply EXCEPT ![c] = Server!Promised(req[c])]
    <2>1. CASE from = "send report"
      <3>1. reply' = [reply EXCEPT ![c] = [status |-> 200, headers |-> <<>>,
                                           answer |-> "OK"]]
        BY <1>4, <1>6, <1>7, <2>1
           DEF Server!SendReply, Server!Goes, Server!Sent
      <3>2. Routes[currentHandler].does = "report"
        BY <1>3, <1>4, <2>1 DEF Members
      <3> QED
        BY <1>6, <3>1, <3>2, WhatIsPromised
    <2>2. CASE from = "send page"
      <3>1. reply' = [reply EXCEPT ![c] = [status |-> 200, headers |-> <<>>,
                                           answer |-> Server!Page(req[c].uri)]]
        BY <1>4, <1>6, <1>7, <2>2
           DEF Server!SendReply, Server!Goes, Server!Sent
      <3>2. Routes[currentHandler].does = "page"
        BY <1>3, <1>4, <2>2 DEF Members
      <3> QED
        BY <1>6, <3>1, <3>2, WhatIsPromised
    <2>3. CASE from = "send set"
      <3>1. responseHeaders = <<"Location">>
        BY <1>3, <1>4, <2>3 DEF Members
      <3>2. reply' = [reply EXCEPT ![c] = [status |-> 302,
                                           headers |-> <<"Location">>,
                                           answer |-> "/"]]
        BY <1>4, <1>6, <2>3, <3>1
           DEF Server!SendReply, Server!Goes, Server!Sent
      <3>3. Routes[currentHandler].does = "set"
        BY <1>3, <1>4, <2>3 DEF Members
      <3> QED
        BY <1>6, <3>2, <3>3, WhatIsPromised
    <2> QED
      BY <2>1, <2>2, <2>3
  <1>9. /\ ThreadTypes' /\ reply'[c] = Server!Promised(req[c])
        /\ \A d \in Conns \ {c} : reply'[d] = reply[d]
    BY <1>3, <1>5, <1>8 DEF ServerTypes, ThreadTypes
  <1>10. MemberTypes'
    <2>4. Len(responseHeaders') <= 1
      BY <1>5, NoHeader
    <2>5. UNCHANGED <<currentRequest, currentHandler>>
      BY <1>5
    <2>6. currentHandler' \in 0..Len(Routes)
      BY <1>3, <2>5 DEF ServerTypes, MemberTypes
    <2>7. currentRequest' \in Conns \cup {Null}
      BY <1>3, <2>5 DEF ServerTypes, MemberTypes
    <2> QED
      BY <2>4, <2>6, <2>7 DEF MemberTypes
  <1>11. Members(c)'
    BY <1>4, <1>5, <1>6 DEF Members, Given, GivenMethod, GivenUri, GivenArgs,
                            Chosen, Replying
  <1>12. Headers'
    BY <1>5 DEF Headers
  <1> QED
    BY <1>1, <1>2, <1>5, <1>9, <1>10, <1>11, <1>12, ServedStep

LEMMA ClearsRequest ==
  ASSUME ServerInv, NEW c \in Conns, Server!ClearRequest(c)
  PROVE  ServerInv'
  <1>1. /\ Server!Goes(c, "clear", "reply") /\ currentRequest' = Null
        /\ UNCHANGED <<req, sent, gone, refs, closed, args, reply,
                       currentMethod, currentUri, currentArgs,
                       currentHandler, responseHeaders>>
    BY DEF Server!ClearRequest, Server!clients, Server!sockets
  <1>2. /\ place[c] = "clear" /\ place'[c] = "reply"
        /\ \A d \in Conns \ {c} : place'[d] = place[d]
    BY <1>1, PlacesAre, Going
  <1>3. ServerTypes /\ ThreadOf(c)
    BY DEF ServerInv
  <1>4. MemberTypes' /\ ThreadTypes'
    BY <1>1, <1>3 DEF ServerTypes, MemberTypes, ThreadTypes
  <1>5. Members(c)'
    BY <1>2 DEF Members, Given, GivenMethod, GivenUri, GivenArgs, Chosen,
                Replying
  <1>6. Headers'
    BY <1>1, <1>2 DEF ServerInv, Headers
  <1>7. reply[c] = Server!Promised(req[c])
    BY <1>2, <1>3 DEF ThreadOf
  <1> QED
    BY <1>1, <1>4, <1>5, <1>6, <1>7, ServedStep DEF Serving

-----------------------------------------------------------------------------
\* The server's steps together.

LEMMA ServerGoesOn ==
  ASSUME ServerInv, MaxOpen = 1, [Server!Next]_Server!vars
  PROVE  ServerInv'
  <1>1. CASE UNCHANGED Server!vars
    <2>1. UNCHANGED <<req, sent, gone, refs, closed, place, args, reply,
                      currentRequest, currentMethod, currentUri, currentArgs,
                      currentHandler, responseHeaders>>
      BY <1>1 DEF Server!vars, Server!clients, Server!sockets, Server!current
    <2>2. ServerTypes'
      BY <2>1 DEF ServerInv, ServerTypes, ClientTypes, SocketTypes,
                  ThreadTypes, MemberTypes
    <2>3. \A c \in Conns : Untouched(c)
      BY <2>1 DEF Untouched
    <2>4. OneOpen' /\ Headers'
      BY <2>1, <2>3, UntouchedOpen DEF ServerInv, OneOpen, Headers
    <2>5. ASSUME NEW c \in Conns
          PROVE  ThreadOf(c)' /\ Members(c)'
      BY <2>1, <2>3, UntouchedThread DEF ServerInv, Members
    <2> QED
      BY <2>2, <2>4, <2>5 DEF ServerInv
  <1>2. ASSUME NEW c \in Conns, Server!Client(c)
        PROVE  ServerInv'
    BY <1>2, Connects, Sends, Leaves DEF Server!Client
  <1>3. ASSUME NEW c \in Conns, Server!Thread(c)
        PROVE  ServerInv'
    <2>1. CASE Server!Accept(c) \/ Server!ReadLine(c) \/ Server!ReadHead(c)
                 \/ Server!ReadBody(c) \/ Server!Reply(c) \/ Server!Destroy(c)
      BY <2>1, Accepts, ReadsLine, ReadsHead, ReadsBody, Replies, Destroys
    <2>2. CASE Server!HandleGet(c)
      BY <2>2, SetsRequest, SetsMethod, SetsUri, SetsArgs, Finds, Handles,
         Reports, Renders, Redirects, SendsReply, ClearsRequest
         DEF Server!HandleGet
    <2> QED
      BY <1>3, <2>1, <2>2 DEF Server!Thread
  <1> QED
    BY <1>1, <1>2, <1>3 DEF Server!Next

LEMMA ServerTypesHold ==
  ASSUME ServerInv
  PROVE  Server!TypeOK
  BY TypesAreRight DEF ServerInv

LEMMA ServerAnswers ==
  ASSUME ServerInv
  PROVE  OwnAnswer
  BY DEF ServerInv, ThreadOf, OwnAnswer, Server!OwnAnswer

\* Only the handler of a report stores a reading.
LEMMA OnlyReports ==
  ASSUME [Server!Next]_Server!vars, kept' # kept
  PROVE  \E c \in Conns : Server!Report(c)
  <1>1. ASSUME NEW c \in Conns, Server!Client(c)
        PROVE  UNCHANGED kept
    BY <1>1 DEF Server!Client, Server!Connect, Server!Send, Server!Leave
  <1>2. ASSUME NEW c \in Conns, Server!HandleGet(c), ~Server!Report(c)
        PROVE  UNCHANGED kept
    BY <1>2 DEF Server!HandleGet, Server!SetRequest, Server!SetMethod,
       Server!SetUri, Server!SetArgs, Server!Find, Server!Handle,
       Server!Render, Server!Redirect, Server!SendReply, Server!ClearRequest
  <1>3. ASSUME NEW c \in Conns, Server!Thread(c), ~Server!HandleGet(c)
        PROVE  UNCHANGED kept
    BY <1>3 DEF Server!Thread, Server!Accept, Server!ReadLine,
       Server!ReadHead, Server!ReadBody, Server!Reply, Server!Destroy
  <1> QED
    BY <1>1, <1>2, <1>3 DEF Server!Next, Server!vars

LEMMA ReportIsOwn ==
  ASSUME ServerInv, [Server!Next]_Server!vars, kept' # kept
  PROVE  \E c \in Conns :
            /\ place[c] = "report"
            /\ kept' = req[c].arg
                 \/ (gone[c] /\ sent[c] = "line" /\ kept' = Zero)
  <1>1. PICK c \in Conns : Server!Report(c)
    BY OnlyReports
  <1>2. /\ place[c] = "report"
        /\ kept' = IF currentArgs = NoArg THEN Zero ELSE currentArgs
    BY <1>1 DEF Server!Report, Server!Goes
  <1>3. ThreadOf(c) /\ Members(c)
    BY DEF ServerInv
  <1>4. /\ currentArgs = args[c] /\ Arrived(c) /\ req[c] \in Requests
        /\ currentHandler \in DOMAIN Routes
        /\ Server!CanHandle(Routes[currentHandler], req[c].method, req[c].uri)
        /\ Routes[currentHandler].does = "report"
    BY <1>2, <1>3, RouteTypes
       DEF ThreadOf, Members, Unasked, Serving, Given, GivenMethod, GivenUri,
           GivenArgs, Chosen, Replying
  <1>5. req[c].arg # NoArg
    BY <1>4, ServerAssumption DEF Server!HasBody
  <1> QED
    BY <1>2, <1>4, <1>5 DEF Arrived

-----------------------------------------------------------------------------
(* The web server implements WebService. *)

\* What a step leaves of a connection, as WebService sees it.
Seen(c) == /\ req'[c] = req[c] /\ Server!CutOff(c)' = Server!CutOff(c)
           /\ Server!Settled(c)' = Server!Settled(c)

LEMMA UntouchedSeen ==
  ASSUME NEW c \in Conns, Untouched(c)
  PROVE  Seen(c)
  BY DEF Untouched, Seen, Server!CutOff, Server!Settled

LEMMA NothingSeen ==
  ASSUME ServerInv, ServerInv', \A c \in Conns : Seen(c), UNCHANGED kept
  PROVE  UNCHANGED Server!Service!vars
  <1>1. req' = req
    BY DEF ServerInv, ServerTypes, ClientTypes, Seen
  <1>2. [c \in Conns |-> Server!CutOff(c)]' = [c \in Conns |-> Server!CutOff(c)]
    BY DEF Seen
  <1>3. [c \in Conns |-> Server!Settled(c)]'
          = [c \in Conns |-> Server!Settled(c)]
    BY DEF Seen
  <1> QED
    BY <1>1, <1>2, <1>3 DEF Server!Service!vars

\* A request is served: this is the step in which it takes effect.
LEMMA ServesOne ==
  ASSUME ServerInv, ServerInv', NEW c \in Conns,
         place[c] # "none", UNCHANGED <<req, sent, gone>>,
         \A d \in Conns \ {c} : Seen(d),
         Server!Settled(c) = Server!Pending,
         Server!Settled(c)' = Server!Promised(req[c]),
         IF Server!Reports(req[c])
           THEN kept' = req[c].arg \/ (Server!CutOff(c) /\ kept' = Zero)
           ELSE kept' = kept
  PROVE  Server!Service!Serve(c)
  <1>1. req[c] # Null
    BY ServerAssumption DEF ServerInv, ThreadOf
  <1>2. [d \in Conns |-> Server!CutOff(d)]' = [d \in Conns |-> Server!CutOff(d)]
    BY DEF Server!CutOff
  <1>3. [d \in Conns |-> Server!Settled(d)]'
          = [[d \in Conns |-> Server!Settled(d)] EXCEPT
                ![c] = Server!Promised(req[c])]
    BY DEF Seen
  <1> QED
    BY <1>1, <1>2, <1>3 DEF Server!Service!Serve

LEMMA OwnHandler ==
  ASSUME ServerInv, NEW c \in Conns, Server!Handle(c)
  PROVE  /\ currentHandler \in 1..Len(Routes)
         /\ Server!CanHandle(Routes[currentHandler], currentMethod, currentUri)
  <1>1. place[c] = "handle" /\ Members(c)
    BY DEF ServerInv, Server!Handle, Server!Goes
  <1> QED
    BY <1>1 DEF Members, Given, GivenMethod, GivenUri, GivenArgs, Chosen

\* A step of a thread that neither settles an answer nor stores anything.
LEMMA QuietServes ==
  ASSUME ServerInv, ServerInv', NEW c \in Conns, NEW from, NEW to \in Places,
         Server!Goes(c, from, to), from # "send report", to # "send report",
         UNCHANGED <<req, sent, gone, reply, kept>>
  PROVE  UNCHANGED Server!Service!vars
  <1>1. /\ place[c] = from /\ place'[c] = to
        /\ \A d \in Conns \ {c} : place'[d] = place[d]
    BY Going
  <1>2. Server!Settled(c)' = Server!Settled(c)
    BY <1>1 DEF Server!Settled
  <1>3. \A d \in Conns \ {c} : Server!Settled(d)' = Server!Settled(d)
    BY <1>1 DEF Server!Settled
  <1>4. \A d \in Conns : Seen(d)
    BY <1>2, <1>3 DEF Seen, Server!CutOff
  <1> QED
    BY <1>4, NothingSeen

LEMMA ThreadServes ==
  ASSUME ServerInv, ServerInv', NEW c \in Conns, Server!Thread(c),
         ~Server!Find(c), ~Server!Report(c), ~Server!SendReply(c)
  PROVE  UNCHANGED Server!Service!vars
  <1>1. UNCHANGED <<req, sent, gone, reply, kept>>
    <2>1. CASE Server!Handle(c)
      BY <2>1, OwnHandler DEF Server!Handle, Server!clients
    <2>2. CASE Server!HandleGet(c) /\ ~Server!Handle(c)
      BY <2>2 DEF Server!HandleGet, Server!SetRequest, Server!SetMethod,
         Server!SetUri, Server!SetArgs, Server!Render, Server!Redirect,
         Server!ClearRequest, Server!clients
    <2>3. CASE ~Server!HandleGet(c)
      BY <2>3 DEF Server!Thread, Server!Accept, Server!ReadLine,
         Server!ReadHead, Server!ReadBody, Server!Reply, Server!Destroy,
         Server!clients
    <2> QED
      BY <2>1, <2>2, <2>3
  <1> DEFINE Calm == Places \ {"send report"}
  <1>2. \E from, to \in Calm : Server!Goes(c, from, to)
    <2>1. CASE Server!Handle(c)
      <3>1. Routes[currentHandler].does \in {"report", "page", "set"}
        BY <2>1, OwnHandler, RouteTypes
      <3>2. Server!Goes(c, "handle", Routes[currentHandler].does)
        BY <2>1, OwnHandler DEF Server!Handle
      <3>3. /\ "handle" \in Calm /\ "report" \in Calm /\ "page" \in Calm
            /\ "set" \in Calm
        BY PlacesAre
      <3> QED
        BY <3>1, <3>2, <3>3
    <2>2. CASE Server!HandleGet(c) /\ ~Server!Handle(c)
      <3>1. \/ Server!Goes(c, "request", "method")
            \/ Server!Goes(c, "method", "uri")
            \/ Server!Goes(c, "uri", "args") \/ Server!Goes(c, "args", "find")
            \/ Server!Goes(c, "page", "send page")
            \/ Server!Goes(c, "set", "send set")
            \/ Server!Goes(c, "clear", "reply")
        BY <2>2 DEF Server!HandleGet, Server!SetRequest, Server!SetMethod,
           Server!SetUri, Server!SetArgs, Server!Render, Server!Redirect,
           Server!ClearRequest
      <3>2. {"request", "method", "uri", "args", "find", "page", "send page",
             "set", "send set", "clear", "reply"} \subseteq Calm
        BY PlacesAre
      <3> HIDE DEF Calm
      <3> QED
        BY <3>1, <3>2
    <2>3. CASE ~Server!HandleGet(c)
      <3>1. \/ Server!Goes(c, "queued", "line")
            \/ Server!Goes(c, "line", "destroy")
            \/ Server!Goes(c, "line", "head")
            \/ Server!Goes(c, "head", "body")
            \/ Server!Goes(c, "head", "request")
            \/ Server!Goes(c, "body", "request")
            \/ Server!Goes(c, "reply", "destroy")
            \/ Server!Goes(c, "destroy", "ended")
        BY <2>3 DEF Server!Thread, Server!Accept, Server!ReadLine,
           Server!ReadHead, Server!ReadBody, Server!Reply, Server!Destroy
      <3>2. {"queued", "line", "head", "body", "request", "reply", "destroy",
             "ended"} \subseteq Calm
        BY PlacesAre
      <3> HIDE DEF Calm
      <3> QED
        BY <3>1, <3>2
    <2> QED
      BY <2>1, <2>2, <2>3
  <1>3. PICK from, to \in Calm : Server!Goes(c, from, to)
    BY <1>2
  <1> QED
    BY <1>1, <1>3, QuietServes

\* The effect of a report.
LEMMA ReportServes ==
  ASSUME ServerInv, ServerInv', NEW c \in Conns, Server!Report(c)
  PROVE  Server!Service!Serve(c)
  <1>1. /\ Server!Goes(c, "report", "send report")
        /\ kept' = IF currentArgs = NoArg THEN Zero ELSE currentArgs
        /\ UNCHANGED <<req, sent, gone, reply>>
    BY DEF Server!Report, Server!clients
  <1>2. /\ place[c] = "report" /\ place'[c] = "send report"
        /\ \A d \in Conns \ {c} : place'[d] = place[d]
    BY <1>1, PlacesAre, Going
  <1>3. /\ Server!Settled(c) = Server!Pending
        /\ Server!Settled(c)' = Server!Promised(req[c])
    <2>1. reply[c] = Server!Pending
      BY <1>2 DEF ServerInv, ThreadOf, Unasked, Serving, Given, GivenMethod,
                  GivenUri, GivenArgs, Chosen, Replying
    <2>2. Server!Settled(c) = reply[c]
      BY <1>2 DEF Server!Settled
    <2>3. Server!Settled(c)' = Server!Promised(req'[c])
      BY <1>2 DEF Server!Settled
    <2> QED
      BY <1>1, <2>1, <2>2, <2>3
  <1>4. \A d \in Conns \ {c} : Seen(d)
    BY <1>1, <1>2 DEF Seen, Server!CutOff, Server!Settled
  <1>5. /\ currentArgs = args[c] /\ Arrived(c) /\ req[c] \in Requests
        /\ Server!CanHandle(Routes[currentHandler], req[c].method, req[c].uri)
        /\ Routes[currentHandler].does = "report"
        /\ currentHandler \in DOMAIN Routes
    BY <1>2, RouteTypes
       DEF ServerInv, ThreadOf, Members, Unasked, Serving, Given, GivenMethod,
           GivenUri, GivenArgs, Chosen, Replying
  <1>6. Server!Reports(req[c])
    BY <1>5 DEF Server!Reports, Server!Asks
  <1>7. req[c].arg # NoArg
    BY <1>5, ServerAssumption DEF Server!HasBody
  <1>8. kept' = req[c].arg \/ (Server!CutOff(c) /\ kept' = Zero)
    BY <1>1, <1>5, <1>7 DEF Arrived, Server!CutOff
  <1> QED
    BY <1>1, <1>2, <1>3, <1>4, <1>6, <1>8, ServesOne

\* The answers of a page, of a change of settings and of a missing page.
LEMMA AnswerServes ==
  ASSUME ServerInv, ServerInv', NEW c \in Conns, NEW from,
         Server!Goes(c, from, "clear"), from \in Serving \ {"clear"},
         from # "send report", ~Server!Reports(req[c]),
         UNCHANGED <<req, sent, gone, kept>>,
         \A d \in Conns \ {c} : reply'[d] = reply[d]
  PROVE  Server!Service!Serve(c)
  <1>1. /\ place[c] = from /\ place'[c] = "clear"
        /\ \A d \in Conns \ {c} : place'[d] = place[d]
    BY PlacesAre, Going
  <1>2. from # "none"
    BY DEF Serving, Given, GivenMethod, GivenUri, GivenArgs, Chosen, Replying
  <1>3. Server!Settled(c) = Server!Pending
    <2>1. reply[c] = Server!Pending
      BY <1>1 DEF ServerInv, ThreadOf
    <2>2. Server!Settled(c) = reply[c]
      BY <1>1 DEF Server!Settled
    <2> QED
      BY <2>1, <2>2
  <1>4. Server!Settled(c)' = Server!Promised(req[c])
    <2>1. reply'[c] = Server!Promised(req'[c])
      BY <1>1 DEF ServerInv, ThreadOf
    <2>2. Server!Settled(c)' = reply'[c]
      BY <1>1 DEF Server!Settled
    <2> QED
      BY <2>1, <2>2
  <1>5. \A d \in Conns \ {c} : Seen(d)
    BY <1>1 DEF Seen, Server!CutOff, Server!Settled
  <1> QED
    BY <1>1, <1>2, <1>3, <1>4, <1>5, ServesOne

LEMMA FindServes ==
  ASSUME ServerInv, ServerInv', NEW c \in Conns, Server!Find(c)
  PROVE  [Server!Service!Next]_(Server!Service!vars)
  <1> DEFINE i == Server!FirstMatch(currentMethod, currentUri)
  <1>1. /\ Server!Goes(c, "find", IF i = 0 THEN "clear" ELSE "handle")
        /\ UNCHANGED <<req, sent, gone, kept>>
        /\ i # 0 => reply' = reply
    BY DEF Server!Find, Server!clients
  <1>2. \A d \in Conns \ {c} : reply'[d] = reply[d]
    BY DEF Server!Find, Server!Answers, ServerInv, ServerTypes, ThreadTypes
  <1>3. currentMethod = req[c].method /\ currentUri = req[c].uri
    <2>1. place[c] = "find" /\ Members(c)
      BY <1>1 DEF Server!Goes, ServerInv
    <2> QED
      BY <2>1 DEF Members, Given, GivenMethod, GivenUri, GivenArgs
  <1>4. i = 0 => ~Server!Reports(req[c])
    <2>1. i = 0 => \A j \in 1..Len(Routes) :
                      ~Server!CanHandle(Routes[j], req[c].method, req[c].uri)
      BY <1>3, Found
    <2> QED
      BY <2>1, RouteTypes DEF Server!Reports, Server!Asks
  <1> HIDE DEF i
  <1>5. CASE i = 0
    <2>1. Server!Goes(c, "find", "clear")
      BY <1>1, <1>5
    <2>2. "find" \in Serving \ {"clear"}
      BY DEF Serving, Given, GivenMethod, GivenUri, GivenArgs
    <2>3. Server!Service!Serve(c)
      BY <1>1, <1>2, <1>4, <1>5, <2>1, <2>2, AnswerServes
    <2> QED
      BY <2>3 DEF Server!Service!Next
  <1>6. CASE i # 0
    <2>1. Server!Goes(c, "find", "handle") /\ UNCHANGED reply
      BY <1>1, <1>6
    <2> QED
      BY <1>1, <2>1, PlacesAre, QuietServes
  <1> QED
    BY <1>5, <1>6

LEMMA SendReplyServes ==
  ASSUME ServerInv, ServerInv', NEW c \in Conns, Server!SendReply(c)
  PROVE  [Server!Service!Next]_(Server!Service!vars)
  <1>1. PICK from \in {"send report", "send page", "send set"} :
             Server!Goes(c, from, "clear")
    BY DEF Server!SendReply
  <1>2. /\ place[c] = from /\ place'[c] = "clear"
        /\ \A d \in Conns \ {c} : place'[d] = place[d]
    BY <1>1, PlacesAre, Going
  <1>3. UNCHANGED <<req, sent, gone, kept>>
    BY DEF Server!SendReply, Server!clients
  <1>4. /\ currentRequest = c /\ req[c] \in Requests
        /\ currentHandler \in DOMAIN Routes
        /\ Server!CanHandle(Routes[currentHandler], req[c].method, req[c].uri)
    BY <1>1, <1>2, RouteTypes
       DEF ServerInv, ThreadOf, Members, Given, GivenMethod, GivenUri,
           GivenArgs, Chosen, Replying
  <1>5. \A d \in Conns \ {c} : reply'[d] = reply[d]
    BY <1>4 DEF Server!SendReply, Server!Sent, ServerInv, ServerTypes,
                ThreadTypes
  <1>6. CASE from = "send report"
    <2>1. Server!Settled(c) = Server!Promised(req[c])
      BY <1>2, <1>6 DEF Server!Settled
    <2>2. reply'[c] = Server!Promised(req'[c])
      BY <1>2 DEF ServerInv, ThreadOf
    <2>3. Server!Settled(c)' = reply'[c]
      BY <1>2 DEF Server!Settled
    <2>4. Seen(c)
      BY <1>3, <2>1, <2>2, <2>3 DEF Seen, Server!CutOff
    <2>5. \A d \in Conns \ {c} : Seen(d)
      BY <1>2, <1>3, <1>5 DEF Seen, Server!CutOff, Server!Settled
    <2> QED
      BY <1>3, <2>4, <2>5, NothingSeen
  <1>7. CASE from # "send report"
    <2>1. Routes[currentHandler].does # "report"
      BY <1>1, <1>2, <1>7 DEF ServerInv, Members
    <2>2. ~Server!Reports(req[c])
      BY <1>4, <2>1, ServerAssumption DEF Server!Reports, Server!Asks
    <2>3. from \in Serving \ {"clear"}
      BY <1>1 DEF Serving, Given, GivenMethod, GivenUri, GivenArgs, Chosen,
                  Replying
    <2>4. Server!Service!Serve(c)
      BY <1>1, <1>3, <1>5, <1>7, <2>2, <2>3, AnswerServes
    <2> QED
      BY <2>4 DEF Server!Service!Next
  <1> QED
    BY <1>6, <1>7

\* A client asks, sends the rest, or leaves.
LEMMA ClientServes ==
  ASSUME ServerInv, ServerInv', NEW c \in Conns, Server!Client(c)
  PROVE  [Server!Service!Next]_(Server!Service!vars)
  <1>1. UNCHANGED <<reply, kept>>
    BY DEF Server!Client, Server!Connect, Server!Send, Server!Leave
  <1>2. ASSUME NEW r \in Requests, Server!Connect(c, r)
        PROVE  Server!Service!Ask(c, r)
    <2>1. /\ place[c] = "none" /\ req' = [req EXCEPT ![c] = r]
          /\ place' = [place EXCEPT ![c] = "queued"]
          /\ UNCHANGED <<sent, gone>>
      BY <1>2 DEF Server!Connect
    <2>2. req[c] = Null
      BY <2>1 DEF ServerInv, ThreadOf
    <2>3. [d \in Conns |-> Server!CutOff(d)]'
            = [d \in Conns |-> Server!CutOff(d)]
      BY <2>1 DEF Server!CutOff
    <2>4. \A d \in Conns : Server!Settled(d)' = Server!Settled(d)
      <3>1. \A d \in Conns : req'[d] = IF d = c THEN r ELSE req[d]
        BY <2>1 DEF ServerInv, ServerTypes, ClientTypes
      <3>2. \A d \in Conns :
               place'[d] = IF d = c THEN "queued" ELSE place[d]
        BY <2>1 DEF ServerInv, ServerTypes
      <3>3. Server!Settled(c) = reply[c] /\ Server!Settled(c)' = reply'[c]
        <4>1. place[c] = "none" /\ place'[c] = "queued"
          BY <2>1, <3>2
        <4>2. Server!Settled(c) = reply[c]
          BY <4>1 DEF Server!Settled
        <4>3. Server!Settled(c)' = reply'[c]
          BY <4>1 DEF Server!Settled
        <4> QED
          BY <4>2, <4>3
      <3>4. ASSUME NEW d \in Conns \ {c}
            PROVE  Server!Settled(d)' = Server!Settled(d)
        <4>1. req'[d] = req[d] /\ place'[d] = place[d] /\ reply' = reply
          BY <1>1, <3>1, <3>2
        <4> QED
          BY <4>1 DEF Server!Settled
      <3> QED
        BY <1>1, <3>3, <3>4
    <2>5. [d \in Conns |-> Server!Settled(d)]'
            = [d \in Conns |-> Server!Settled(d)]
      BY <2>4
    <2> QED
      BY <1>1, <2>1, <2>2, <2>3, <2>5 DEF Server!Service!Ask
  <1>3. CASE Server!Send(c)
    <2>1. /\ ~gone[c] /\ sent' = [sent EXCEPT ![c] = Server!Rest[sent[c]]]
          /\ UNCHANGED <<req, gone, place>>
      BY <1>3 DEF Server!Send
    <2>2. \A d \in Conns : Server!CutOff(d)' = Server!CutOff(d)
      BY <2>1 DEF Server!CutOff, ServerInv, ServerTypes, ClientTypes
    <2>3. \A d \in Conns : Seen(d)
      BY <1>1, <2>1, <2>2 DEF Seen, Server!Settled
    <2> QED
      BY <1>1, <2>3, NothingSeen
  <1>4. CASE Server!Leave(c)
    <2>1. /\ place[c] # "none" /\ gone' = [gone EXCEPT ![c] = TRUE]
          /\ UNCHANGED <<req, sent, place>>
      BY <1>4 DEF Server!Leave
    <2>2. \A d \in Conns : gone'[d] = IF d = c THEN TRUE ELSE gone[d]
      BY <2>1 DEF ServerInv, ServerTypes, ClientTypes
    <2>3. \A d \in Conns \ {c} : Seen(d)
      BY <1>1, <2>1, <2>2 DEF Seen, Server!CutOff, Server!Settled
    <2>4. \A d \in Conns : Server!Settled(d)' = Server!Settled(d)
      BY <1>1, <2>1 DEF Server!Settled
    <2>5. CASE sent[c] = "all"
      <3>1. Server!CutOff(c)' = Server!CutOff(c)
        BY <2>1, <2>5 DEF Server!CutOff
      <3>2. Seen(c)
        BY <2>1, <2>4, <3>1 DEF Seen
      <3> QED
        BY <1>1, <2>3, <3>2, NothingSeen
    <2>6. CASE sent[c] # "all"
      <3>1. req[c] # Null
        BY <2>1, ServerAssumption DEF ServerInv, ThreadOf
      <3>2. \A d \in Conns :
               Server!CutOff(d)' = IF d = c THEN TRUE ELSE Server!CutOff(d)
        BY <2>1, <2>2, <2>6 DEF Server!CutOff
      <3>3. [d \in Conns |-> Server!CutOff(d)]'
              = [[d \in Conns |-> Server!CutOff(d)] EXCEPT ![c] = TRUE]
        BY <3>2
      <3>4. [d \in Conns |-> Server!Settled(d)]'
              = [d \in Conns |-> Server!Settled(d)]
        BY <2>4
      <3>5. Server!Service!CutShort(c)
        BY <1>1, <2>1, <3>1, <3>3, <3>4 DEF Server!Service!CutShort
      <3> QED
        BY <3>5 DEF Server!Service!Next
    <2> QED
      BY <2>5, <2>6
  <1> QED
    BY <1>2, <1>3, <1>4 DEF Server!Client, Server!Service!Next

LEMMA StepServes ==
  ASSUME ServerInv, ServerInv', [Server!Next]_Server!vars
  PROVE  [Server!Service!Next]_(Server!Service!vars)
  <1>1. ASSUME NEW c \in Conns, Server!Client(c)
        PROVE  [Server!Service!Next]_(Server!Service!vars)
    BY <1>1, ClientServes
  <1>2. ASSUME NEW c \in Conns, Server!Thread(c)
        PROVE  [Server!Service!Next]_(Server!Service!vars)
    <2>1. CASE Server!Report(c)
      <3>1. Server!Service!Serve(c)
        BY <2>1, ReportServes
      <3> QED
        BY <3>1 DEF Server!Service!Next
    <2>2. CASE Server!Find(c) \/ Server!SendReply(c)
      BY <2>2, FindServes, SendReplyServes
    <2> QED
      BY <1>2, <2>1, <2>2, ThreadServes
  <1>3. CASE UNCHANGED Server!vars
    <2>1. UNCHANGED <<req, sent, gone, place, reply, kept>>
      BY <1>3 DEF Server!vars, Server!clients
    <2>2. \A c \in Conns : Seen(c)
      BY <2>1 DEF Seen, Server!CutOff, Server!Settled
    <2> QED
      BY <2>1, <2>2, NothingSeen
  <1> QED
    BY <1>1, <1>2, <1>3 DEF Server!Next

LEMMA ServiceStarts ==
  ASSUME Server!Init
  PROVE  Server!Service!Init
  <1>1. /\ req \in [Conns -> {Null}] /\ gone = [c \in Conns |-> FALSE]
        /\ place = [c \in Conns |-> "none"] /\ kept = Null
        /\ reply = [c \in Conns |-> Server!Pending]
    BY DEF Server!Init
  <1>2. req = [c \in Conns |-> Null]
    BY <1>1
  <1>3. \A c \in Conns : Server!CutOff(c) = FALSE
    BY <1>1 DEF Server!CutOff
  <1>4. \A c \in Conns : Server!Settled(c) = Server!Pending
    BY <1>1 DEF Server!Settled
  <1> QED
    BY <1>1, <1>2, <1>3, <1>4 DEF Server!Service!Init

-----------------------------------------------------------------------------
(* Induction over 0..N, and functions that are defined by recursion over it. *)

\* What holds of 0, and of each number after one it holds of, holds of all.
LEMMA Inductive ==
  ASSUME NEW S, NEW N \in Nat, 0 \in S,
         \A i \in 0..N : i \in S /\ i # N => i + 1 \in S
  PROVE  \A i \in 0..N : i \in S
  <1> DEFINE T == {i \in 0..N : i \notin S}
  <1>1. SUFFICES ASSUME T # {} PROVE FALSE
    OBVIOUS
  <1>2. T \subseteq Nat
    OBVIOUS
  <1>3. PICK x \in T : \A y \in T : x <= y
    <2> HIDE DEF T
    <2> QED
      BY <1>1, <1>2, Least
  <1>4. x \in 1..N /\ x - 1 \in 0..N /\ x - 1 # N
    BY <1>3
  <1>5. x - 1 \in S
    BY <1>3, <1>4
  <1>6. (x - 1) + 1 \in S
    BY <1>4, <1>5
  <1> QED
    BY <1>3, <1>4, <1>6

Steps(n, S) == [1..n -> [S -> S]]

\* f begins with the first value, and each step makes the next of the last.
Iterates(f, first, step, n, S) ==
    /\ f \in [0..n -> S] /\ f[0] = first
    /\ \A i \in 1..n : f[i] = step[i][f[i - 1]]

\* A function defined by what it is at 0, and at a number by what it is at the
\* one before.
LEMMA Recursion ==
  ASSUME NEW S, NEW first \in S, NEW N \in Nat, NEW step \in Steps(N, S)
  PROVE  \E f : Iterates(f, first, step, N, S)
  <1> USE DEF Steps, Iterates
  <1> DEFINE Upto(n, f) ==
               f[0] = first /\ \A i \in 1..n : f[i] = step[i][f[i - 1]]
             T == {n \in 0..N : \E f \in [0..n -> S] : Upto(n, f)}
  <1>1. 0 \in T
    <2> DEFINE f == [i \in 0..0 |-> first]
    <2>1. f \in [0..0 -> S] /\ Upto(0, f)
      OBVIOUS
    <2>2. 0 \in 0..N
      OBVIOUS
    <2> HIDE DEF f, Upto
    <2> QED
      BY <2>1, <2>2
  <1>2. ASSUME NEW n \in 0..N, n \in T, n # N
        PROVE  n + 1 \in T
    <2>1. PICK f \in [0..n -> S] : Upto(n, f)
      BY <1>2
    <2> DEFINE last == step[n + 1][f[n]]
               g == [i \in 0..(n + 1) |-> IF i = n + 1 THEN last ELSE f[i]]
    <2>2. last \in S /\ n + 1 \in 1..N
      BY <1>2
    <2>3. g \in [0..(n + 1) -> S]
      BY <2>2
    <2>4. \A i \in 0..n : g[i] = f[i]
      OBVIOUS
    <2>5. g[n + 1] = step[n + 1][g[n]]
      BY <2>4
    <2>6. Upto(n + 1, g)
      <3>1. g[0] = first
        BY <2>1, <2>4
      <3>2. ASSUME NEW i \in 1..(n + 1)
            PROVE  g[i] = step[i][g[i - 1]]
        <4>1. CASE i = n + 1
          BY <2>5, <4>1
        <4>2. CASE i # n + 1
          <5>1. i \in 1..n /\ i \in 0..n /\ i - 1 \in 0..n
            BY <4>2
          <5>2. f[i] = step[i][f[i - 1]]
            BY <2>1, <5>1
          <5>3. g[i] = f[i] /\ g[i - 1] = f[i - 1]
            BY <2>4, <5>1
          <5> QED
            BY <5>2, <5>3
        <4> QED
          BY <4>1, <4>2
      <3> QED
        BY <3>1, <3>2
    <2> HIDE DEF g, Upto
    <2>7. n + 1 \in 0..N
      BY <2>2
    <2> QED
      BY <2>3, <2>6, <2>7
  <1> HIDE DEF T
  <1>3. \A n \in 0..N : n \in T /\ n # N => n + 1 \in T
    BY <1>2
  <1>4. \A n \in 0..N : n \in T
    BY <1>1, <1>3, Inductive
  <1>5. N \in 0..N
    OBVIOUS
  <1> QED
    BY <1>4, <1>5 DEF T

-----------------------------------------------------------------------------
(* The arguments of a request. *)

Blank  == " "
Chars  == Plain \cup Special \cup {Blank}
Fields == [name : Names, value : Seq(Chars)]
Tokens == [char : Chars \cup Names \cup {"+", "=", "&"}, escaped : BOOLEAN]
And    == Form!Raw("&")

FormTyped == form \in Seq(Fields)

\* What FlattenSeq has put together after each sequence.
LEMMA FlattenSteps ==
  ASSUME NEW S, NEW ss \in Seq(Seq(S)), NEW f \in [0..Len(ss) -> Seq(S)],
         f[0] = <<>>, \A i \in 1..Len(ss) : f[i] = f[i - 1] \o ss[i]
  PROVE  Form!FlattenSeq(ss) = f[Len(ss)]
  <1>1. CASE Len(ss) = 0
    <2>1. ss = <<>>
      BY <1>1, EmptySeq
    <2> QED
      BY <1>1, <2>1 DEF Form!FlattenSeq
  <1>2. CASE Len(ss) # 0
    <2> DEFINE Eq(h) == h = [i \in 1..Len(ss) |-> IF i = 1 THEN ss[i]
                                               ELSE h[i - 1] \o ss[i]]
               g == [i \in 1..Len(ss) |-> f[i]]
               h == CHOOSE h : Eq(h)
               T == {i \in 0..Len(ss) : i = 0 \/ h[i] = f[i]}
    <2>1. Len(ss) \in Nat /\ \A i \in 1..Len(ss) : ss[i] \in Seq(S)
      OBVIOUS
    <2>2. \A i \in 1..Len(ss) :
             f[i] = IF i = 1 THEN ss[i] ELSE g[i - 1] \o ss[i]
      <3> SUFFICES ASSUME NEW i \in 1..Len(ss)
                   PROVE  f[i] = IF i = 1 THEN ss[i] ELSE g[i - 1] \o ss[i]
        OBVIOUS
      <3>1. f[i] = f[i - 1] \o ss[i] /\ ss[i] \in Seq(S)
        BY <2>1
      <3>2. CASE i = 1
        <4>1. f[i - 1] = <<>>
          BY <3>2
        <4>2. <<>> \o ss[i] = ss[i]
          BY <3>1
        <4> QED
          BY <3>1, <3>2, <4>1, <4>2
      <3>3. CASE i # 1
        <4>1. i - 1 \in 1..Len(ss)
          BY <2>1, <3>3
        <4>2. g[i - 1] = f[i - 1]
          BY <4>1
        <4> QED
          BY <3>1, <3>3, <4>2
      <3> QED
        BY <3>2, <3>3
    <2>3. Eq(g)
      BY <2>2
    <2>4. Eq(h)
      <3> HIDE DEF Eq, g
      <3> QED
        BY <2>3
    <2>5. \A i \in 1..Len(ss) :
             h[i] = IF i = 1 THEN ss[i] ELSE h[i - 1] \o ss[i]
      <3> HIDE DEF h
      <3> QED
        BY <2>4
    <2>6. 0 \in T
      BY <2>1
    <2>7. ASSUME NEW i \in 0..Len(ss), i \in T, i # Len(ss)
          PROVE  i + 1 \in T
      <3> HIDE DEF h
      <3>1. i + 1 \in 1..Len(ss) /\ (i + 1) - 1 = i
        <4>1. i # Len(ss)
          BY <2>7
        <4> HIDE DEF T
        <4> QED
          BY <2>1, <4>1
      <3>2. CASE i = 0
        <4>1. h[i + 1] = ss[i + 1] /\ i + 1 \in 0..Len(ss)
          BY <2>5, <3>1, <3>2
        <4>2. f[i + 1] = ss[i + 1]
          <5>1. i + 1 = 1 /\ 1 \in 1..Len(ss)
            BY <3>1, <3>2
          <5>2. f[1] = ss[1]
            BY <2>2, <5>1
          <5> QED
            BY <5>1, <5>2
        <4> QED
          BY <4>1, <4>2
      <3>3. CASE i # 0
        <4>1. i + 1 # 1 /\ i \in 1..Len(ss) /\ i + 1 \in 0..Len(ss)
          BY <3>1, <3>3
        <4>2. h[i + 1] = h[i] \o ss[i + 1]
          BY <2>5, <3>1, <4>1
        <4>3. f[i + 1] = f[i] \o ss[i + 1]
          BY <3>1
        <4>4. h[i] = f[i]
          BY <2>7, <3>3
        <4> QED
          BY <4>1, <4>2, <4>3, <4>4
      <3> QED
        BY <3>2, <3>3
    <2>8. Len(ss) \in T
      <3> HIDE DEF T
      <3>1. \A i \in 0..Len(ss) : i \in T /\ i # Len(ss) => i + 1 \in T
        BY <2>7
      <3>2. \A i \in 0..Len(ss) : i \in T
        BY <2>1, <2>6, <3>1, Inductive
      <3> QED
        BY <2>1, <3>2
    <2>9. h[Len(ss)] = f[Len(ss)]
      <3> HIDE DEF h
      <3> QED
        BY <1>2, <2>8
    <2> QED
      BY <1>2, <2>9 DEF Form!FlattenSeq
  <1> QED
    BY <1>1, <1>2

\* FlattenSeq puts sequences together.
LEMMA FlattenAppend ==
  ASSUME NEW S, NEW ss \in Seq(Seq(S)), NEW x \in Seq(S)
  PROVE  /\ Form!FlattenSeq(ss) \in Seq(S)
         /\ Form!FlattenSeq(Append(ss, x)) = Form!FlattenSeq(ss) \o x
  <1> DEFINE n == Len(ss)
             tt == Append(ss, x)
             step == [i \in 1..(n + 1) |-> [t \in Seq(S) |-> t \o tt[i]]]
  <1>1. /\ n \in Nat /\ tt \in Seq(Seq(S)) /\ Len(tt) = n + 1
        /\ tt[n + 1] = x /\ \A i \in 1..n : tt[i] = ss[i]
    OBVIOUS
  <1>2. step \in Steps(n + 1, Seq(S))
    <2> SUFFICES ASSUME NEW i \in 1..(n + 1), NEW t \in Seq(S)
                 PROVE  t \o tt[i] \in Seq(S)
      BY DEF Steps
    <2>1. tt[i] \in Seq(S)
      BY <1>1
    <2> QED
      BY <2>1
  <1>3. PICK f : Iterates(f, <<>>, step, n + 1, Seq(S))
    <2>1. <<>> \in Seq(S) /\ n + 1 \in Nat
      BY <1>1
    <2> HIDE DEF step
    <2> QED
      BY <1>2, <2>1, Recursion
  <1>31. f \in [0..(n + 1) -> Seq(S)] /\ f[0] = <<>>
    BY <1>3 DEF Iterates
  <1>4. \A i \in 1..(n + 1) : f[i] = f[i - 1] \o tt[i]
    <2> SUFFICES ASSUME NEW i \in 1..(n + 1) PROVE f[i] = f[i - 1] \o tt[i]
      OBVIOUS
    <2>1. i - 1 \in 0..(n + 1)
      BY <1>1
    <2>2. f[i - 1] \in Seq(S)
      BY <1>31, <2>1
    <2>3. f[i] = step[i][f[i - 1]]
      BY <1>3 DEF Iterates
    <2> QED
      BY <2>2, <2>3
  <1> DEFINE g == [i \in 0..n |-> f[i]]
  <1> HIDE DEF step, tt
  <1>5. Form!FlattenSeq(tt) = f[n + 1]
    <2>1. f \in [0..Len(tt) -> Seq(S)] /\ f[0] = <<>>
          /\ \A i \in 1..Len(tt) : f[i] = f[i - 1] \o tt[i]
      BY <1>1, <1>31, <1>4
    <2> QED
      BY <1>1, <2>1, FlattenSteps
  <1>6. Form!FlattenSeq(ss) = f[n]
    <2>1. g \in [0..n -> Seq(S)] /\ g[0] = <<>> /\ g[n] = f[n]
      BY <1>1, <1>31
    <2>2. \A i \in 1..n : g[i] = g[i - 1] \o ss[i]
      <3> SUFFICES ASSUME NEW i \in 1..n PROVE g[i] = g[i - 1] \o ss[i]
        OBVIOUS
      <3>1. i \in 0..n /\ i - 1 \in 0..n /\ i \in 1..(n + 1)
        BY <1>1
      <3> QED
        BY <1>1, <1>4, <3>1
    <2> HIDE DEF g
    <2> QED
      BY <2>1, <2>2, FlattenSteps
  <1>7. f[n] \in Seq(S) /\ f[n + 1] = f[n] \o x
    <2>1. n \in 0..(n + 1) /\ n + 1 \in 1..(n + 1) /\ (n + 1) - 1 = n
      BY <1>1
    <2> QED
      BY <1>1, <1>31, <1>4, <2>1
  <1> QED
    BY <1>5, <1>6, <1>7 DEF tt

Pieces(S) == [done : Seq(Seq(S)), part : Seq(S)]

\* Before the first character.
Unsplit == [done |-> <<>>, part |-> <<>>]

\* What the pieces become with the next character.
Further(p, x, c) ==
    IF x = c THEN [done |-> Append(p.done, p.part), part |-> <<>>]
    ELSE [done |-> p.done, part |-> Append(p.part, x)]

LEMMA FurtherType ==
  ASSUME NEW S, NEW p \in Pieces(S), NEW x \in S, NEW c
  PROVE  Further(p, x, c) \in Pieces(S)
  <1>1. p.done \in Seq(Seq(S)) /\ p.part \in Seq(S)
    BY DEF Pieces
  <1>2. Append(p.done, p.part) \in Seq(Seq(S)) /\ Append(p.part, x) \in Seq(S)
    BY <1>1
  <1>3. <<>> \in Seq(S)
    OBVIOUS
  <1> QED
    BY <1>1, <1>2, <1>3 DEF Pieces, Further

\* What Split has found after each character.
LEMMA SplitSteps ==
  ASSUME NEW S, NEW s \in Seq(S), NEW c, NEW f \in [0..Len(s) -> Pieces(S)],
         f[0] = Unsplit,
         \A i \in 1..Len(s) : f[i] = Further(f[i - 1], s[i], c)
  PROVE  Form!Split(s, c) = f[Len(s)]
  <1> DEFINE Eq(h) == h = [i \in 0..Len(s) |->
                             IF i = 0 THEN [done |-> <<>>, part |-> <<>>]
                             ELSE LET before == h[i - 1] IN
                                  IF s[i] = c
                                    THEN [done |-> Append(before.done,
                                                          before.part),
                                          part |-> <<>>]
                                    ELSE [done |-> before.done,
                                          part |-> Append(before.part, s[i])]]
             h == CHOOSE h : Eq(h)
             T == {i \in 0..Len(s) : h[i] = f[i]}
  <1>1. Len(s) \in Nat
    OBVIOUS
  <1>2. Eq(f)
    <2>1. \A i \in 0..Len(s) : i # 0 => i \in 1..Len(s)
      BY <1>1
    <2>2. f = [i \in 0..Len(s) |-> f[i]]
      OBVIOUS
    <2> QED
      BY <2>1, <2>2 DEF Unsplit, Further
  <1>3. Eq(h)
    <2> HIDE DEF Eq
    <2> QED
      BY <1>2
  <1>4. h[0] = Unsplit /\ \A i \in 1..Len(s) : h[i] = Further(h[i - 1], s[i], c)
    <2> HIDE DEF h
    <2>1. 0 \in 0..Len(s) /\ \A i \in 1..Len(s) : i # 0 /\ i \in 0..Len(s)
      BY <1>1
    <2> QED
      BY <1>3, <2>1 DEF Unsplit, Further
  <1> HIDE DEF h
  <1>5. 0 \in T
    BY <1>1, <1>4
  <1>6. ASSUME NEW i \in 0..Len(s), i \in T, i # Len(s)
        PROVE  i + 1 \in T
    <2>1. i + 1 \in 1..Len(s) /\ (i + 1) - 1 = i /\ i + 1 \in 0..Len(s)
      <3>1. i # Len(s)
        BY <1>6
      <3> QED
        BY <1>1, <3>1
    <2>2. h[i + 1] = Further(h[i], s[i + 1], c)
      BY <1>4, <2>1
    <2>3. f[i + 1] = Further(f[i], s[i + 1], c)
      BY <2>1
    <2> QED
      BY <1>6, <2>1, <2>2, <2>3
  <1>7. Len(s) \in T
    <2> HIDE DEF T
    <2>1. \A i \in 0..Len(s) : i \in T /\ i # Len(s) => i + 1 \in T
      BY <1>6
    <2>2. \A i \in 0..Len(s) : i \in T
      BY <1>1, <1>5, <2>1, Inductive
    <2> QED
      BY <1>1, <2>2
  <1>8. Form!Split(s, c) = h[Len(s)]
    BY DEF Form!Split, h
  <1> QED
    BY <1>7, <1>8

\* Split goes on where it was.
LEMMA SplitAppend ==
  ASSUME NEW S, NEW s \in Seq(S), NEW x \in S, NEW c
  PROVE  /\ Form!Split(s, c) \in Pieces(S)
         /\ Form!Split(Append(s, x), c) = Further(Form!Split(s, c), x, c)
  <1> DEFINE n == Len(s)
             t == Append(s, x)
             step == [i \in 1..(n + 1) |->
                        [p \in Pieces(S) |-> Further(p, t[i], c)]]
  <1>1. /\ n \in Nat /\ t \in Seq(S) /\ Len(t) = n + 1
        /\ t[n + 1] = x /\ \A i \in 1..n : t[i] = s[i]
    OBVIOUS
  <1>2. step \in Steps(n + 1, Pieces(S))
    <2> SUFFICES ASSUME NEW i \in 1..(n + 1), NEW p \in Pieces(S)
                 PROVE  Further(p, t[i], c) \in Pieces(S)
      BY DEF Steps
    <2>1. t[i] \in S
      BY <1>1
    <2> QED
      BY <2>1, FurtherType
  <1>3. PICK f : Iterates(f, Unsplit, step, n + 1, Pieces(S))
    <2>1. Unsplit \in Pieces(S) /\ n + 1 \in Nat
      <3>1. <<>> \in Seq(Seq(S)) /\ <<>> \in Seq(S)
        OBVIOUS
      <3> QED
        BY <1>1, <3>1 DEF Unsplit, Pieces
    <2> HIDE DEF step
    <2> QED
      BY <1>2, <2>1, Recursion
  <1>4. f \in [0..(n + 1) -> Pieces(S)] /\ f[0] = Unsplit
    BY <1>3 DEF Iterates
  <1>5. \A i \in 1..(n + 1) : f[i] = Further(f[i - 1], t[i], c)
    <2> SUFFICES ASSUME NEW i \in 1..(n + 1)
                 PROVE  f[i] = Further(f[i - 1], t[i], c)
      OBVIOUS
    <2>1. i - 1 \in 0..(n + 1)
      BY <1>1
    <2>2. f[i - 1] \in Pieces(S)
      BY <1>4, <2>1
    <2>3. f[i] = step[i][f[i - 1]]
      BY <1>3 DEF Iterates
    <2> QED
      BY <2>2, <2>3
  <1> DEFINE g == [i \in 0..n |-> f[i]]
  <1> HIDE DEF step, t
  <1>6. Form!Split(t, c) = f[n + 1]
    <2>1. f \in [0..Len(t) -> Pieces(S)] /\ f[0] = Unsplit
          /\ \A i \in 1..Len(t) : f[i] = Further(f[i - 1], t[i], c)
      BY <1>1, <1>4, <1>5
    <2>2. t \in Seq(S) /\ Len(t) = n + 1
      BY <1>1
    <2>3. Form!Split(t, c) = f[Len(t)]
      BY <2>1, <2>2, SplitSteps
    <2> QED
      BY <2>2, <2>3
  <1>7. Form!Split(s, c) = f[n]
    <2>1. g \in [0..n -> Pieces(S)] /\ g[0] = Unsplit /\ g[n] = f[n]
      BY <1>1, <1>4
    <2>2. \A i \in 1..n : g[i] = Further(g[i - 1], s[i], c)
      <3> SUFFICES ASSUME NEW i \in 1..n
                   PROVE  g[i] = Further(g[i - 1], s[i], c)
        OBVIOUS
      <3>1. i \in 0..n /\ i - 1 \in 0..n /\ i \in 1..(n + 1)
        BY <1>1
      <3>2. g[i] = f[i] /\ g[i - 1] = f[i - 1] /\ t[i] = s[i]
        BY <1>1, <3>1
      <3> QED
        BY <1>5, <3>1, <3>2
    <2> HIDE DEF g
    <2> QED
      BY <2>1, <2>2, SplitSteps
  <1>8. f[n] \in Pieces(S) /\ f[n + 1] = Further(f[n], x, c)
    <2>1. n \in 0..(n + 1) /\ n + 1 \in 1..(n + 1) /\ (n + 1) - 1 = n
      BY <1>1
    <2>2. f[n + 1] = Further(f[n], t[n + 1], c)
      BY <1>5, <2>1
    <2> QED
      BY <1>1, <1>4, <2>1, <2>2
  <1> QED
    BY <1>6, <1>7, <1>8 DEF t

\* A prefix with the element after it.
LEMMA LongerPrefix ==
  ASSUME NEW S, NEW e \in Seq(S), NEW k \in 0..Len(e), k # Len(e)
  PROVE  /\ SubSeq(e, 1, k) \in Seq(S) /\ k + 1 \in 1..Len(e)
         /\ SubSeq(e, 1, k + 1) = Append(SubSeq(e, 1, k), e[k + 1])
  <1>1. Len(e) \in Nat /\ k + 1 \in 1..Len(e) /\ k \in Nat
    OBVIOUS
  <1>2. SubSeq(e, 1, k) \in Seq(S) /\ Len(SubSeq(e, 1, k)) = k
        /\ \A i \in 1..k : SubSeq(e, 1, k)[i] = e[i]
    BY <1>1
  <1>3. SubSeq(e, 1, k + 1) \in Seq(S) /\ Len(SubSeq(e, 1, k + 1)) = k + 1
        /\ \A i \in 1..(k + 1) : SubSeq(e, 1, k + 1)[i] = e[i]
    BY <1>1
  <1>4. e[k + 1] \in S
    BY <1>1
  <1> DEFINE u == SubSeq(e, 1, k)
             v == SubSeq(e, 1, k + 1)
             w == Append(u, e[k + 1])
  <1>5. w \in Seq(S) /\ Len(w) = k + 1
        /\ \A i \in 1..(k + 1) : w[i] = e[i]
    <2> HIDE DEF u
    <2>1. u \in Seq(S) /\ Len(u) = k /\ \A i \in 1..k : u[i] = e[i]
      BY <1>2 DEF u
    <2> QED
      BY <1>1, <1>4, <2>1
  <1>6. v = w
    <2> HIDE DEF v, w
    <2>1. v \in Seq(S) /\ Len(v) = k + 1 /\ \A i \in 1..(k + 1) : v[i] = e[i]
      BY <1>3 DEF v
    <2> QED
      BY <1>1, <1>5, <2>1, SeqEqual
  <1> QED
    BY <1>1, <1>2, <1>6

\* To append to the second of two texts is to append to both.
LEMMA ConcatThenAppend ==
  ASSUME NEW S, NEW s \in Seq(S), NEW u \in Seq(S), NEW x \in S
  PROVE  /\ s \o u \in Seq(S)
         /\ s \o Append(u, x) = Append(s \o u, x)
  OBVIOUS

\* A text without the separator is added to the last piece.
LEMMA SplitText ==
  ASSUME NEW S, NEW s \in Seq(S), NEW e \in Seq(S), NEW c \in S,
         \A i \in 1..Len(e) : e[i] # c
  PROVE  /\ s \o e \in Seq(S)
         /\ Form!Split(s \o e, c) =
              [done |-> Form!Split(s, c).done,
               part |-> Form!Split(s, c).part \o e]
  <1> DEFINE p == Form!Split(s, c)
             Holds(k) == Form!Split(s \o SubSeq(e, 1, k), c) =
                           [done |-> p.done, part |-> p.part \o SubSeq(e, 1, k)]
             T == {k \in 0..Len(e) : Holds(k)}
  <1>1. Len(e) \in Nat /\ p.part \in Seq(S) /\ p.done \in Seq(Seq(S))
        /\ p = [done |-> p.done, part |-> p.part]
    <2>1. p \in Pieces(S)
      BY SplitAppend
    <2> QED
      BY <2>1 DEF Pieces
  <1>2. 0 \in T
    <2>1. SubSeq(e, 1, 0) = <<>>
      BY <1>1
    <2>2. s \o <<>> = s /\ p.part \o <<>> = p.part
      BY <1>1
    <2>3. Holds(0)
      <3> HIDE DEF p
      <3>1. Form!Split(s \o SubSeq(e, 1, 0), c) = p
        BY <2>1, <2>2 DEF p
      <3> QED
        BY <1>1, <2>1, <2>2, <3>1
    <2> HIDE DEF Holds
    <2> QED
      BY <1>1, <2>3
  <1>3. ASSUME NEW k \in 0..Len(e), k \in T, k # Len(e)
        PROVE  k + 1 \in T
    <2> DEFINE u == SubSeq(e, 1, k)
               v == SubSeq(e, 1, k + 1)
               x == e[k + 1]
    <2>1. Holds(k) /\ k # Len(e)
      BY <1>3
    <2>2. u \in Seq(S) /\ k + 1 \in 1..Len(e) /\ v = Append(u, x)
      BY <2>1, LongerPrefix
    <2>3. x \in S /\ x # c /\ k + 1 \in 0..Len(e)
      BY <2>2, <1>1
    <2> HIDE DEF p, u, v, x
    <2>4. s \o u \in Seq(S) /\ s \o v = Append(s \o u, x)
      BY <2>2, <2>3, ConcatThenAppend
    <2>5. p.part \o v = Append(p.part \o u, x)
      <3>1. ASSUME NEW g \in Seq(S)
            PROVE  g \o Append(u, x) = Append(g \o u, x)
        BY <2>2, <2>3, ConcatThenAppend
      <3>2. p.part \in Seq(S)
        BY <1>1
      <3> QED
        BY <3>1, <3>2, <2>2
    <2>6. Form!Split(s \o v, c) = Further(Form!Split(s \o u, c), x, c)
      <3> DEFINE w == s \o u
      <3>1. w \in Seq(S) /\ s \o v = Append(w, x)
        BY <2>4
      <3> HIDE DEF w
      <3>2. Form!Split(Append(w, x), c) = Further(Form!Split(w, c), x, c)
        BY <2>3, <3>1, SplitAppend
      <3> QED
        BY <3>1, <3>2 DEF w
    <2>7. Form!Split(s \o u, c) = [done |-> p.done, part |-> p.part \o u]
      BY <2>1 DEF u
    <2>8. Form!Split(s \o v, c) = [done |-> p.done, part |-> p.part \o v]
      BY <2>3, <2>5, <2>6, <2>7 DEF Further
    <2> QED
      BY <2>3, <2>8 DEF v
  <1>4. Len(e) \in T
    <2> HIDE DEF T
    <2>1. \A k \in 0..Len(e) : k \in T /\ k # Len(e) => k + 1 \in T
      BY <1>3
    <2>2. \A k \in 0..Len(e) : k \in T
      BY <1>1, <1>2, <2>1, Inductive
    <2> QED
      BY <1>1, <2>2
  <1>5. SubSeq(e, 1, Len(e)) = e
    BY SubSeqFull
  <1>6. s \o e \in Seq(S)
    OBVIOUS
  <1> QED
    BY <1>4, <1>5, <1>6

\* Texts that are sent with a separator after each are found again.
LEMMA SplitFields ==
  ASSUME NEW S, NEW es \in Seq(Seq(S)), NEW c \in S,
         \A j \in 1..Len(es) : \A i \in 1..Len(es[j]) : es[j][i] # c
  PROVE  Form!Split(Form!FlattenSeq([j \in DOMAIN es |-> Append(es[j], c)]),
                    c).done = es
  <1> DEFINE bs == [j \in DOMAIN es |-> Append(es[j], c)]
             Holds(k) == Form!Split(Form!FlattenSeq(SubSeq(bs, 1, k)), c) =
                           [done |-> SubSeq(es, 1, k), part |-> <<>>]
             T == {k \in 0..Len(es) : Holds(k)}
  <1>1. /\ Len(es) \in Nat /\ bs \in Seq(Seq(S)) /\ Len(bs) = Len(es)
        /\ \A j \in 1..Len(es) : es[j] \in Seq(S) /\ bs[j] = Append(es[j], c)
    <2>1. Len(es) \in Nat /\ DOMAIN es = 1..Len(es)
      OBVIOUS
    <2>2. \A j \in 1..Len(es) : es[j] \in Seq(S)
      OBVIOUS
    <2>3. \A j \in 1..Len(es) : Append(es[j], c) \in Seq(S)
      BY <2>2
    <2>4. bs \in [1..Len(es) -> Seq(S)]
      BY <2>1, <2>3
    <2>5. bs \in Seq(Seq(S))
      <3> DEFINE SS == Seq(S)
                 n == Len(es)
      <3>1. n \in Nat /\ bs \in [1..n -> SS]
        BY <2>1, <2>4
      <3> HIDE DEF bs, SS, n
      <3>2. bs \in Seq(SS)
        BY <3>1
      <3> QED
        BY <3>2 DEF SS
    <2>6. Len(bs) = Len(es)
      <3> HIDE DEF bs
      <3> QED
        BY <2>1, <2>4
    <2> QED
      BY <2>1, <2>2, <2>5, <2>6
  <1> HIDE DEF bs
  <1>2. 0 \in T
    <2>1. SubSeq(bs, 1, 0) = <<>> /\ SubSeq(es, 1, 0) = <<>>
      BY <1>1
    <2>2. Form!FlattenSeq(<<>>) = <<>>
      BY EmptySeq DEF Form!FlattenSeq
    <2>3. Form!Split(<<>>, c) = [done |-> <<>>, part |-> <<>>]
      <3> DEFINE f == [i \in 0..0 |-> Unsplit]
                 s == <<>>
      <3>1. s \in Seq(S) /\ Len(s) = 0 /\ <<>> \in Seq(Seq(S))
        BY EmptySeq
      <3>2. Unsplit \in Pieces(S)
        BY <3>1 DEF Unsplit, Pieces
      <3>3. f \in [0..Len(s) -> Pieces(S)] /\ f[0] = Unsplit
        BY <3>1, <3>2
      <3> HIDE DEF f, s
      <3>4. \A i \in 1..Len(s) : f[i] = Further(f[i - 1], s[i], c)
        <4>1. 1..Len(s) = {}
          BY <3>1
        <4> QED
          BY <4>1, Zenon
      <3>5. Form!Split(s, c) = f[Len(s)]
        <4>1. /\ s \in Seq(S) /\ f \in [0..Len(s) -> Pieces(S)] /\ f[0] = Unsplit
              /\ \A i \in 1..Len(s) : f[i] = Further(f[i - 1], s[i], c)
          BY <3>1, <3>3, <3>4, Zenon
        <4> QED
          BY <4>1, SplitSteps
      <3> QED
        BY <3>1, <3>3, <3>5 DEF s, Unsplit
    <2>4. Holds(0)
      BY <2>1, <2>2, <2>3, Zenon
    <2> HIDE DEF Holds
    <2> QED
      BY <1>1, <2>4
  <1>3. ASSUME NEW k \in 0..Len(es), k \in T, k # Len(es)
        PROVE  k + 1 \in T
    <2> DEFINE u == SubSeq(bs, 1, k)
               d == SubSeq(es, 1, k)
               e == es[k + 1]
    <2>1. Holds(k) /\ k # Len(es)
      BY <1>3
    <2>2. u \in Seq(Seq(S)) /\ SubSeq(bs, 1, k + 1) = Append(u, bs[k + 1])
      BY <1>1, <2>1, LongerPrefix
    <2>3. k + 1 \in 1..Len(es) /\ SubSeq(es, 1, k + 1) = Append(d, e)
      BY <2>1, LongerPrefix
    <2>4. e \in Seq(S) /\ bs[k + 1] = Append(e, c) /\ k + 1 \in 0..Len(es)
          /\ \A i \in 1..Len(e) : e[i] # c
      BY <1>1, <2>3
    <2>5. Form!Split(Form!FlattenSeq(u), c) = [done |-> d, part |-> <<>>]
      BY <2>1
    <2> HIDE DEF u, d, e
    <2>6. Append(e, c) \in Seq(S)
      BY <2>4
    <2>7. Form!FlattenSeq(u) \in Seq(S)
          /\ Form!FlattenSeq(Append(u, Append(e, c)))
               = Form!FlattenSeq(u) \o Append(e, c)
      BY <2>2, <2>6, FlattenAppend
    <2>8. Form!FlattenSeq(u) \o e \in Seq(S)
          /\ Form!FlattenSeq(u) \o Append(e, c)
               = Append(Form!FlattenSeq(u) \o e, c)
      BY <2>4, <2>7, ConcatThenAppend
    <2>9. Form!Split(Form!FlattenSeq(u) \o e, c) = [done |-> d, part |-> e]
      <3>1. <<>> \o e = e
        BY <2>4
      <3>2. Form!Split(Form!FlattenSeq(u) \o e, c) =
               [done |-> Form!Split(Form!FlattenSeq(u), c).done,
                part |-> Form!Split(Form!FlattenSeq(u), c).part \o e]
        BY <2>4, <2>7, SplitText
      <3> QED
        BY <2>5, <3>1, <3>2
    <2>10. Form!Split(Append(Form!FlattenSeq(u) \o e, c), c)
             = [done |-> Append(d, e), part |-> <<>>]
      <3> DEFINE w == Form!FlattenSeq(u) \o e
      <3>1. w \in Seq(S)
        BY <2>8
      <3>2. Form!Split(w, c) = [done |-> d, part |-> e]
        BY <2>9
      <3> HIDE DEF w
      <3>3. Form!Split(Append(w, c), c) = Further(Form!Split(w, c), c, c)
        BY <3>1, SplitAppend
      <3>4. Form!Split(Append(w, c), c) = [done |-> Append(d, e), part |-> <<>>]
        BY <3>2, <3>3 DEF Further
      <3> QED
        BY <3>4 DEF w
    <2> QED
      BY <2>2, <2>3, <2>4, <2>7, <2>8, <2>10
  <1>4. Len(es) \in T
    <2> HIDE DEF T
    <2>1. \A k \in 0..Len(es) : k \in T /\ k # Len(es) => k + 1 \in T
      BY <1>3
    <2>2. \A k \in 0..Len(es) : k \in T
      BY <1>1, <1>2, <2>1, Inductive
    <2> QED
      BY <1>1, <2>2
  <1>5. SubSeq(es, 1, Len(es)) = es /\ SubSeq(bs, 1, Len(bs)) = bs
    BY <1>1, SubSeqFull
  <1>6. Holds(Len(es))
    <2> HIDE DEF Holds
    <2> QED
      BY <1>4
  <1>7. Form!Split(Form!FlattenSeq(bs), c) = [done |-> es, part |-> <<>>]
    BY <1>1, <1>5, <1>6
  <1> QED
    BY <1>7 DEF bs

\* A sequence put together of its elements.
LEMMA FlattenOnes ==
  ASSUME NEW S, NEW w \in Seq(S)
  PROVE  Form!FlattenSeq([i \in DOMAIN w |-> <<w[i]>>]) = w
  <1> DEFINE ones == [i \in DOMAIN w |-> <<w[i]>>]
             n == Len(w)
             f == [i \in 0..n |-> SubSeq(w, 1, i)]
  <1>1. n \in Nat /\ DOMAIN w = 1..n /\ \A i \in 1..n : w[i] \in S
    OBVIOUS
  <1>2. ones \in [1..n -> Seq(S)] /\ \A i \in 1..n : ones[i] = <<w[i]>>
    BY <1>1
  <1>3. ones \in Seq(Seq(S)) /\ Len(ones) = n
    <2> DEFINE SS == Seq(S)
    <2>1. ones \in [1..n -> SS]
      BY <1>2
    <2> HIDE DEF ones, SS, n
    <2>2. ones \in Seq(SS) /\ Len(ones) = n
      BY <1>1, <2>1
    <2> QED
      BY <2>2 DEF SS
  <1>4. \A i \in 0..n : SubSeq(w, 1, i) \in Seq(S)
    BY <1>1
  <1>5. f \in [0..n -> Seq(S)] /\ f[0] = <<>> /\ f[n] = w
    <2>1. SubSeq(w, 1, 0) = <<>> /\ SubSeq(w, 1, n) = w
      BY <1>1, SubSeqFull
    <2> QED
      BY <1>1, <1>4, <2>1
  <1>6. \A i \in 1..n : f[i] = f[i - 1] \o ones[i]
    <2> SUFFICES ASSUME NEW i \in 1..n PROVE f[i] = f[i - 1] \o ones[i]
      OBVIOUS
    <2>1. i - 1 \in 0..n /\ i - 1 # n /\ (i - 1) + 1 = i /\ i \in 0..n
      BY <1>1
    <2>2. SubSeq(w, 1, i) = Append(SubSeq(w, 1, i - 1), w[i])
      BY <2>1, LongerPrefix
    <2>3. SubSeq(w, 1, i - 1) \in Seq(S) /\ w[i] \in S
      BY <1>1, <1>4, <2>1
    <2> DEFINE u == SubSeq(w, 1, i - 1)
    <2>4. u \o <<w[i]>> = Append(u, w[i])
      <3>1. u \in Seq(S) /\ w[i] \in S
        BY <2>3
      <3> HIDE DEF u
      <3> QED
        BY <3>1
    <2> QED
      BY <1>2, <2>1, <2>2, <2>4
  <1> HIDE DEF f, ones
  <1>7. Form!FlattenSeq(ones) = f[Len(ones)]
    <2>1. /\ f \in [0..Len(ones) -> Seq(S)] /\ f[0] = <<>>
          /\ \A i \in 1..Len(ones) : f[i] = f[i - 1] \o ones[i]
      BY <1>3, <1>5, <1>6
    <2> QED
      BY <1>3, <2>1, FlattenSteps
  <1> QED
    BY <1>3, <1>5, <1>7 DEF ones

\* What Unescape replaces by nothing.
Blanks == [char : White \cup {Blank}, escaped : {TRUE}]

\* A value that a field can bring over.
Kept(v) == \A k \in DOMAIN v : v[k] \notin White

\* What a browser makes of a character, and what PlusToSpace and Unescape
\* see of it.
LEMMA OneCharacter ==
  ASSUME NEW c \in Chars
  PROVE  /\ Form!Encoded(c) \in Tokens /\ Form!Encoded(c) # And
         /\ LET t == Form!Encoded(c)
                w == IF t = Form!Raw("+") THEN Form!Raw(Blank) ELSE t
            IN  w.char = c /\ (c \notin White => w \notin Blanks)
  <1>1. Form!Encoded(c) = IF c = Blank THEN [char |-> "+", escaped |-> FALSE]
                          ELSE [char |-> c, escaped |-> c \notin Plain]
    BY Zenon DEF Form!Encoded, Form!Raw, Blank
  <1> DEFINE t == Form!Encoded(c)
             w == IF t = Form!Raw("+") THEN Form!Raw(Blank) ELSE t
             coded == c \notin Plain
  <1>2. CASE c = Blank
    <2>1. t = Form!Raw("+")
      BY <1>1, <1>2 DEF Form!Raw
    <2>2. w = Form!Raw(Blank)
      BY <2>1
    <2> HIDE DEF w, t
    <2>3. w \notin Blanks
      BY <2>2 DEF Form!Raw, Blanks
    <2> QED
      BY <1>2, <2>1, <2>2, <2>3 DEF Form!Raw, And, Tokens, Chars, t, w
  <1>3. CASE c # Blank
    <2>1. t = [char |-> c, escaped |-> coded]
      BY <1>1, <1>3
    <2>2. coded \in BOOLEAN /\ (c = "+" \/ c = "&" => coded)
      BY FormAssumption
    <2> HIDE DEF coded
    <2>3. t # Form!Raw("+") /\ t # And
      BY <2>1, <2>2 DEF Form!Raw, And
    <2>4. w = t
      BY <2>3
    <2>5. w.char = c /\ (c \notin White => w \notin Blanks)
      <3>1. t.char = c
        BY <2>1
      <3>2. \A b \in Blanks : b.char \in White \cup {Blank}
        BY DEF Blanks
      <3> HIDE DEF w, t
      <3> QED
        BY <1>3, <2>4, <3>1, <3>2
    <2>6. t \in Tokens
      BY <2>1, <2>2 DEF Tokens
    <2> QED
      BY <2>3, <2>5, <2>6
  <1> QED
    BY <1>2, <1>3

LEMMA EncodedValue ==
  ASSUME NEW v \in Seq(Chars)
  PROVE  [i \in DOMAIN v |-> Form!Encoded(v[i])] \in Seq(Tokens)
  <1> DEFINE e == [i \in DOMAIN v |-> Form!Encoded(v[i])]
  <1>1. e \in [1..Len(v) -> Tokens] /\ Len(v) \in Nat
    BY OneCharacter
  <1> HIDE DEF e
  <1> QED
    BY <1>1 DEF e

\* A value is found as it was typed.
LEMMA ValueArrives ==
  ASSUME NEW v \in Seq(Chars), Kept(v)
  PROVE  Form!Value([i \in DOMAIN v |-> Form!Encoded(v[i])])
           = [i \in DOMAIN v |-> Form!Raw(v[i])]
  <1> DEFINE n == Len(v)
             e == [i \in DOMAIN v |-> Form!Encoded(v[i])]
             w == [i \in DOMAIN e |->
                     IF e[i] = Form!Raw("+") THEN Form!Raw(Blank) ELSE e[i]]
  <1>1. n \in Nat /\ DOMAIN v = 1..n
        /\ \A i \in 1..n : v[i] \in Chars /\ v[i] \notin White
    BY DEF Kept
  <1>2. DOMAIN e = 1..n
    BY <1>1
  <1>3. DOMAIN w = 1..n
        /\ \A i \in 1..n : w[i].char = v[i] /\ w[i] \notin Blanks
    <2> SUFFICES ASSUME NEW i \in 1..n
                 PROVE  w[i].char = v[i] /\ w[i] \notin Blanks
      BY <1>2
    <2>1. e[i] = Form!Encoded(v[i]) /\ i \in DOMAIN e
      BY <1>1, <1>2
    <2>2. w[i] = IF e[i] = Form!Raw("+") THEN Form!Raw(Blank) ELSE e[i]
      BY <2>1
    <2> HIDE DEF w, e
    <2> QED
      BY <1>1, <2>1, <2>2, OneCharacter
  <1>4. Form!PlusToSpace(e) = w
    <2> HIDE DEF e
    <2> QED
      BY Zenon DEF Form!PlusToSpace, Blank
  <1> HIDE DEF w, e
  <1> DEFINE empty(i) == w[i] \in Blanks
             Eq(h) == h = [i \in 0..Len(w) |->
                             i > 1 /\ empty(i - 1) /\ ~h[i - 1]]
             passed == CHOOSE h : Eq(h)
             g == [i \in 0..Len(w) |-> FALSE]
  <1>5. Len(w) = n
    BY <1>1, <1>3
  <1>6. Eq(passed)
    <2>1. \A i \in 0..Len(w) : ~(i > 1 /\ empty(i - 1) /\ ~g[i - 1])
      BY <1>1, <1>3, <1>5
    <2>2. Eq(g)
      BY <2>1
    <2> HIDE DEF Eq, g
    <2> QED
      BY <2>2
  <1>7. \A i \in 1..n : passed[i] = FALSE
    <2> HIDE DEF passed
    <2> SUFFICES ASSUME NEW i \in 1..n PROVE passed[i] = FALSE
      OBVIOUS
    <2>1. i \in 0..Len(w) /\ ~(i > 1 /\ empty(i - 1) /\ ~passed[i - 1])
      BY <1>1, <1>3, <1>5
    <2>2. passed[i] = (i > 1 /\ empty(i - 1) /\ ~passed[i - 1])
      BY <1>6, <2>1, Zenon
    <2> QED
      BY <2>1, <2>2, Zenon
  <1> DEFINE r == [i \in 1..n |-> Form!Raw(v[i])]
             un == [i \in DOMAIN w |->
                       IF passed[i] THEN <<w[i]>>
                       ELSE IF empty(i) THEN <<>> ELSE <<Form!Raw(w[i].char)>>]
  <1>8. un = [i \in DOMAIN r |-> <<r[i]>>]
    <2> HIDE DEF passed
    <2> QED
      BY <1>3, <1>7
  <1>9. Form!Unescape(w) = Form!FlattenSeq(un)
    BY Zenon DEF Form!Unescape, passed, Blank, Blanks
  <1>10. r \in Seq({Form!Raw(c) : c \in Chars})
    BY <1>1
  <1>11. Form!FlattenSeq([i \in DOMAIN r |-> <<r[i]>>]) = r
    <2> HIDE DEF r
    <2> QED
      BY <1>10, FlattenOnes
  <1>12. Form!Value(e) = r
    BY <1>4, <1>8, <1>9, <1>11 DEF Form!Value
  <1> QED
    BY <1>1, <1>12 DEF e

\* A field is sent without a separator in it.
LEMMA OneField ==
  ASSUME NEW f \in Fields
  PROVE  LET e == Form!EncodedField(f) IN
         /\ e \in Seq(Tokens) /\ \A i \in 1..Len(e) : e[i] # And
         /\ Head(e).char = f.name
         /\ Kept(f.value) => Form!Value(SubSeq(e, 3, Len(e)))
                               = [k \in DOMAIN f.value |-> Form!Raw(f.value[k])]
  <1> DEFINE v == f.value
             d == [i \in DOMAIN v |-> Form!Encoded(v[i])]
             nm == Form!Raw(f.name)
             q == Form!Raw("=")
             e == <<nm, q>> \o d
  <1>1. f.name \in Names /\ v \in Seq(Chars)
    BY DEF Fields
  <1>2. /\ d \in Seq(Tokens)
        /\ Kept(v) => Form!Value(d) = [k \in DOMAIN v |-> Form!Raw(v[k])]
    BY <1>1, EncodedValue, ValueArrives
  <1>3. Form!EncodedField(f) = e
    BY DEF Form!EncodedField
  <1>4. \A i \in 1..Len(d) : d[i] # And
    <2>1. DOMAIN d = 1..Len(v) /\ \A i \in 1..Len(v) : v[i] \in Chars
      BY <1>1
    <2>2. Len(d) = Len(v)
      <3> HIDE DEF d
      <3> QED
        BY <1>1, <1>2, <2>1
    <2> QED
      BY <2>1, <2>2, OneCharacter
  <1>5. nm \in Tokens /\ q \in Tokens /\ nm # And /\ q # And /\ nm.char = f.name
    <2>1. FALSE \in BOOLEAN /\ "=" # "&"
      OBVIOUS
    <2> QED
      BY <1>1, <2>1, FormAssumption DEF Form!Raw, And, Tokens
  <1> HIDE DEF d, nm, q
  <1>6. /\ e \in Seq(Tokens) /\ Len(e) = Len(d) + 2 /\ Len(d) \in Nat
        /\ e[1] = nm /\ e[2] = q /\ \A i \in 1..Len(d) : e[i + 2] = d[i]
    BY <1>2, <1>5
  <1> HIDE DEF e
  <1>7. \A i \in 1..Len(e) : e[i] # And
    <2> SUFFICES ASSUME NEW i \in 1..Len(e), i # 1, i # 2 PROVE e[i] # And
      BY <1>5, <1>6
    <2>1. i - 2 \in 1..Len(d) /\ (i - 2) + 2 = i
      BY <1>6
    <2> QED
      BY <1>4, <1>6, <2>1
  <1>8. Head(e) = nm
    BY <1>6
  <1>9. SubSeq(e, 3, Len(e)) = d
    <2> DEFINE s == SubSeq(e, 3, Len(e))
    <2>1. s \in Seq(Tokens) /\ Len(s) = Len(d)
          /\ \A i \in 1..Len(d) : s[i] = e[i + 2]
      BY <1>6
    <2> HIDE DEF s
    <2>2. \A i \in 1..Len(d) : s[i] = d[i]
      BY <1>6, <2>1
    <2>3. s = d
      BY <1>2, <2>1, <2>2, SeqEqual
    <2> QED
      BY <2>3 DEF s
  <1> QED
    BY <1>2, <1>3, <1>5, <1>6, <1>7, <1>8, <1>9

\* SplitGetReq finds the fields of the form.
LEMMA FieldsFound ==
  ASSUME FormTyped
  PROVE  Form!Split(Form!Body, And).done
           = [i \in DOMAIN form |-> Form!EncodedField(form[i])]
  <1> DEFINE es == [i \in DOMAIN form |-> Form!EncodedField(form[i])]
             n == Len(form)
  <1>1. n \in Nat /\ DOMAIN form = 1..n /\ \A i \in 1..n : form[i] \in Fields
    BY DEF FormTyped
  <1>2. \A i \in 1..n : es[i] = Form!EncodedField(form[i])
    BY <1>1
  <1>3. es \in Seq(Seq(Tokens)) /\ Len(es) = n /\ DOMAIN es = DOMAIN form
    <2> DEFINE SS == Seq(Tokens)
    <2>1. DOMAIN es = 1..n
      BY <1>1
    <2>2. \A i \in 1..n : Form!EncodedField(form[i]) \in SS
      BY <1>1, OneField
    <2>3. es \in [1..n -> SS]
      BY <1>1, <2>2
    <2> HIDE DEF es, SS, n
    <2>4. es \in Seq(SS) /\ Len(es) = n
      BY <1>1, <2>3
    <2> QED
      BY <1>1, <2>1, <2>4 DEF SS
  <1>4. \A j \in 1..Len(es) : \A i \in 1..Len(es[j]) : es[j][i] # And
    <2> SUFFICES ASSUME NEW j \in 1..n
                 PROVE  \A i \in 1..Len(es[j]) : es[j][i] # And
      BY <1>3
    <2> HIDE DEF es
    <2>1. es[j] = Form!EncodedField(form[j]) /\ form[j] \in Fields
      BY <1>1, <1>2
    <2>2. \A i \in 1..Len(Form!EncodedField(form[j])) :
             Form!EncodedField(form[j])[i] # And
      BY <2>1, OneField
    <2> QED
      BY <2>1, <2>2
  <1>5. Form!Body = Form!FlattenSeq([j \in DOMAIN es |-> Append(es[j], And)])
    BY <1>3 DEF Form!Body, And
  <1>6. And \in Tokens
    <2>1. FALSE \in BOOLEAN
      OBVIOUS
    <2> QED
      BY <2>1 DEF And, Form!Raw, Tokens
  <1> HIDE DEF es
  <1>7. Form!Split(Form!FlattenSeq([j \in DOMAIN es |-> Append(es[j], And)]),
                   And).done = es
    BY <1>3, <1>4, <1>6, SplitFields
  <1> QED
    BY <1>5, <1>7 DEF es

\* A form arrives field by field.
LEMMA FieldsArrive ==
  ASSUME FormTyped
  PROVE  Form!FormArrives
  <1> DEFINE es == [i \in DOMAIN form |-> Form!EncodedField(form[i])]
             n == Len(form)
             pairs == Form!Split(Form!Body, And).done
             name(p) == Head(p).char
             first(m) == Form!SelectInSeq(pairs, LAMBDA p : name(p) = m)
             value(p) == Form!Value(SubSeq(p, 3, Len(p)))
             typed(m) == Form!SelectInSeq(form, LAMBDA f : f.name = m)
  <1>1. n \in Nat /\ DOMAIN form = 1..n /\ \A i \in 1..n : form[i] \in Fields
    BY DEF FormTyped
  <1>2. pairs = es
    BY FieldsFound
  <1>3. DOMAIN pairs = 1..n /\ Len(pairs) = n
    <2>1. DOMAIN es = 1..n
      BY <1>1
    <2>2. Len(es) = n
      <3> HIDE DEF es
      <3> QED
        BY <1>1, <2>1
    <2> HIDE DEF pairs, es
    <2> QED
      BY <1>2, <2>1, <2>2
  <1>4. \A i \in 1..n :
           /\ name(pairs[i]) = form[i].name
           /\ Kept(form[i].value) =>
                value(pairs[i]) = [k \in DOMAIN form[i].value |->
                                     Form!Raw(form[i].value[k])]
    <2> SUFFICES ASSUME NEW i \in 1..n
                 PROVE  /\ name(pairs[i]) = form[i].name
                        /\ Kept(form[i].value) =>
                             value(pairs[i]) = [k \in DOMAIN form[i].value |->
                                                  Form!Raw(form[i].value[k])]
      OBVIOUS
    <2>1. pairs[i] = Form!EncodedField(form[i])
      <3>1. es[i] = Form!EncodedField(form[i])
        BY <1>1
      <3> HIDE DEF pairs, es
      <3> QED
        BY <1>2, <3>1
    <2> HIDE DEF pairs
    <2> QED
      BY <1>1, <2>1, OneField
  <1>5. Form!Params = [m \in {name(pairs[i]) : i \in DOMAIN pairs} |->
                          value(pairs[first(m)])]
    BY Zenon DEF Form!Params, And
  <1> HIDE DEF pairs
  <1>6. \A m : first(m) = typed(m)
    <2> SUFFICES ASSUME NEW m PROVE first(m) = typed(m)
      OBVIOUS
    <2>1. {i \in 1..Len(pairs) : name(pairs[i]) = m}
            = {i \in 1..Len(form) : form[i].name = m}
      BY <1>3, <1>4
    <2> QED
      BY <2>1 DEF Form!SelectInSeq
  <1>7. ASSUME NEW m
        PROVE  LET i == typed(m) IN
               IF i = 0 THEN \A j \in 1..n : form[j].name # m
               ELSE i \in 1..n /\ form[i].name = m
    <2> DEFINE I == {i \in 1..Len(form) : form[i].name = m}
    <2>1. typed(m) = IF I # {} THEN Form!Min(I) ELSE 0
      BY DEF Form!SelectInSeq
    <2>2. CASE I # {}
      <3>1. PICK x \in I : \A y \in I : x <= y
        <4>1. I \subseteq Nat
          BY <1>1
        <4> HIDE DEF I
        <4> QED
          BY <2>2, <4>1, Least
      <3>2. Form!Min(I) \in I
        <4> HIDE DEF I
        <4> QED
          BY <3>1 DEF Form!Min
      <3> QED
        BY <1>1, <2>1, <2>2, <3>2
    <2>3. CASE I = {}
      BY <2>1, <2>3
    <2> QED
      BY <2>2, <2>3
  <1>8. SUFFICES ASSUME NEW m \in Names
                 PROVE  /\ (typed(m) = 0) = (m \notin DOMAIN Form!Params)
                        /\ \/ typed(m) = 0
                           \/ ~Kept(form[typed(m)].value)
                           \/ Form!Params[m] =
                                [k \in DOMAIN form[typed(m)].value |->
                                   Form!Raw(form[typed(m)].value[k])]
    BY Zenon DEF Form!FormArrives, Kept
  <1>9. DOMAIN Form!Params = {name(pairs[i]) : i \in 1..n}
    BY <1>3, <1>5
  <1>10. m \in DOMAIN Form!Params => Form!Params[m] = value(pairs[typed(m)])
    <2> HIDE DEF first, typed, value
    <2> QED
      BY <1>5, <1>6
  <1> HIDE DEF first, typed
  <1>11. CASE typed(m) = 0
    <2>1. \A j \in 1..n : form[j].name # m
      BY <1>7, <1>11
    <2>2. m \notin DOMAIN Form!Params
      BY <1>4, <1>9, <2>1
    <2> QED
      BY <1>11, <2>2
  <1>12. CASE typed(m) # 0
    <2>1. typed(m) \in 1..n /\ form[typed(m)].name = m
      BY <1>7, <1>12
    <2>2. m \in DOMAIN Form!Params
      BY <1>4, <1>9, <2>1
    <2> QED
      BY <1>4, <1>10, <1>12, <2>1, <2>2
  <1> QED
    BY <1>11, <1>12

\* The forms are built of fields.
LEMMA FormBuilt ==
  /\ Form!Init => FormTyped
  /\ FormTyped /\ [Form!Next]_form => FormTyped'
  <1>1. Form!Init => FormTyped
    BY EmptySeq DEF Form!Init, FormTyped
  <1>2. ASSUME FormTyped, NEW m \in Names, Form!AddField(m)
        PROVE  FormTyped'
    <2>1. form' = Append(form, [name |-> m, value |-> <<>>])
      BY <1>2 DEF Form!AddField
    <2>2. [name |-> m, value |-> <<>>] \in Fields
      BY EmptySeq DEF Fields
    <2> QED
      BY <1>2, <2>1, <2>2 DEF FormTyped
  <1>3. ASSUME FormTyped, NEW c \in Chars, Form!Type(c)
        PROVE  FormTyped'
    <2> DEFINE n == Len(form)
               f == form[n]
               g == [f EXCEPT !.value = Append(@, c)]
    <2>1. form # <<>> /\ form' = [form EXCEPT ![n].value = Append(@, c)]
      BY <1>3 DEF Form!Type
    <2>2. n \in Nat /\ DOMAIN form = 1..n /\ form \in [1..n -> Fields] /\ n # 0
      BY <1>3, <2>1, EmptySeq DEF FormTyped
    <2>3. f \in Fields
      BY <2>2
    <2>4. g \in Fields
      <3>1. f.value \in Seq(Chars)
        BY <2>3 DEF Fields
      <3>2. Append(f.value, c) \in Seq(Chars)
        BY <1>3, <3>1
      <3> QED
        BY <2>3, <3>2 DEF Fields
    <2>5. form' = [form EXCEPT ![n] = g]
      BY <2>1
    <2> HIDE DEF g
    <2>6. form' \in [1..n -> Fields]
      BY <2>2, <2>4, <2>5
    <2> HIDE DEF n
    <2> QED
      BY <2>2, <2>6 DEF FormTyped
  <1>4. ASSUME FormTyped, UNCHANGED form PROVE FormTyped'
    BY <1>4 DEF FormTyped
  <1>5. Form!Next <=> \/ \E m \in Names : Form!AddField(m)
                      \/ \E c \in Chars : Form!Type(c)
    BY Zenon DEF Form!Next, Chars, Blank
  <1> QED
    BY <1>1, <1>2, <1>3, <1>4, <1>5

-----------------------------------------------------------------------------
(* The parts side by side. *)

LEMMA EachPart ==
  ASSUME [SimulatorNext]_<<vars, server, form, time>>
  PROVE  /\ [Next]_vars
         /\ [Server!Next]_Server!vars
         /\ [Clock!Next]_Clock!vars
         /\ [Form!Next]_form
  <1>1. server' = server => UNCHANGED Server!vars
    BY DEF server, Server!vars, Server!clients, Server!sockets, Server!current
  <1>2. time' = time => UNCHANGED Clock!vars
    BY DEF time, Clock!vars
  <1> QED
    BY <1>1, <1>2 DEF SimulatorNext

\* Whatever the remote, the clients and the timers do: the types hold.  The
\* server answers one request at a time.
THEOREM TypesHold ==
  ASSUME MaxOpen = 1
  PROVE  SimulatorSpec => []TypesOK
  <1>1. SimulatorInit => IInv /\ ServerInv
    BY RemoteStarts, ServerStarts DEF SimulatorInit, RemoteRests, ServerRests
  <1>2. IInv /\ ServerInv /\ [SimulatorNext]_<<vars, server, form, time>>
          => (IInv /\ ServerInv)'
    BY EachPart, RemoteGoesOn, ServerGoesOn
  <1>3. IInv /\ ServerInv => TypesOK
    BY ServerTypesHold DEF IInv, TypesOK
  <1> QED
    BY <1>1, <1>2, <1>3, PTL DEF SimulatorSpec

LEMMA ServerHolds ==
  ASSUME MaxOpen = 1
  PROVE  SimulatorSpec => []ServerInv
  <1>1. SimulatorInit => ServerInv
    BY ServerStarts DEF SimulatorInit, ServerRests
  <1>2. ServerInv /\ [SimulatorNext]_<<vars, server, form, time>>
          => ServerInv'
    BY EachPart, ServerGoesOn
  <1> QED
    BY <1>1, <1>2, PTL DEF SimulatorSpec

\* Each client of the web server is sent the answer to its own request, and
\* the headers of no earlier one, however many requests there are in all.
THEOREM OwnAnswerHolds ==
  ASSUME MaxOpen = 1
  PROVE  SimulatorSpec => []OwnAnswer
  <1>1. ServerInv => OwnAnswer
    BY ServerAnswers
  <1> QED
    BY <1>1, ServerHolds, PTL

\* A reading that the web server stores is the one its own report carries, or
\* the report's client had left before its body.
THEOREM OwnReportHolds ==
  ASSUME MaxOpen = 1
  PROVE  SimulatorSpec => StoresOwnReport
  <1> DEFINE Own == kept' # kept =>
                      \E c \in Conns :
                         /\ place[c] = "report"
                         /\ kept' = req[c].arg
                              \/ (gone[c] /\ sent[c] = "line" /\ kept' = Zero)
  <1>1. ServerInv /\ [SimulatorNext]_<<vars, server, form, time>>
          => [Own]_Server!vars
    BY EachPart, ReportIsOwn
  <1>2. SimulatorSpec => [][Own]_Server!vars
    BY <1>1, ServerHolds, PTL DEF SimulatorSpec
  <1> QED
    BY <1>2 DEF StoresOwnReport, Server!StoresOwnReport

\* The web server, answering one request at a time, implements WebService:
\* the effect of each request and its answer come together, and once.
THEOREM ServesAtOnceHolds ==
  ASSUME MaxOpen = 1
  PROVE  SimulatorSpec => ServesAtOnce
  <1>1. SimulatorInit => Server!Service!Init
    BY ServiceStarts DEF SimulatorInit, ServerRests
  <1>2. ServerInv /\ ServerInv' /\ [SimulatorNext]_<<vars, server, form, time>>
          => [Server!Service!Next]_(Server!Service!vars)
    BY EachPart, StepServes
  <1>3. SimulatorSpec => Server!Service!Spec
    BY <1>1, <1>2, ServerHolds, PTL DEF SimulatorSpec, Server!Service!Spec
  <1> QED
    BY <1>3 DEF ServesAtOnce, Server!ServesAtOnce

\* A handler finds every field of a form under its name and no other, however
\* long the form is; and it finds the field's value as it was typed, of any
\* characters but white space that a browser sends as %xy.
THEOREM FormArrivesHolds == SimulatorSpec => []FormArrives
  <1>1. SimulatorInit => FormTyped
    BY FormBuilt DEF SimulatorInit, FormRests
  <1>2. FormTyped /\ [SimulatorNext]_<<vars, server, form, time>>
          => FormTyped'
    BY EachPart, FormBuilt
  <1>3. FormTyped => FormArrives
    BY FieldsArrive DEF FormArrives
  <1> QED
    BY <1>1, <1>2, <1>3, PTL DEF SimulatorSpec

\* While only the main thread reads the clock it neither loses nor gains a
\* second, however its counter wraps and whenever the time is set.
THEOREM ClockKeepsTime ==
  ASSUME Threads = OneThread
  PROVE  SimulatorSpec => []KeepsTime
  <1>1. SimulatorInit => ClockInv
    BY ClockStarts DEF SimulatorInit
  <1>2. ClockInv /\ [SimulatorNext]_<<vars, server, form, time>> => ClockInv'
    BY EachPart, ClockGoesOn
  <1>3. ClockInv => KeepsTime
    BY ClockHolds
  <1> QED
    BY <1>1, <1>2, <1>3, PTL DEF SimulatorSpec

\* All of it together, the remote under the specification of the composition
\* as well.
THEOREM SimulatorHolds ==
  ASSUME MaxOpen = 1, Threads = OneThread
  PROVE  SimulatorSpec =>
           /\ [](TypesOK /\ StoredIsOwn /\ OwnAnswer /\ FormArrives
                   /\ KeepsTime)
           /\ NeverOlder /\ StoresOwnReport /\ ServesAtOnce
  <1>1. SimulatorSpec => Spec
    <2>1. SimulatorInit => Init
      BY DEF SimulatorInit, RemoteRests
    <2>2. [SimulatorNext]_<<vars, server, form, time>> => [Next]_vars
      BY EachPart
    <2> QED
      BY <2>1, <2>2, PTL DEF SimulatorSpec, Spec
  <1> QED
    BY <1>1, TypesHold, StoredIsTrue, StoredInOrder, OwnAnswerHolds,
       OwnReportHolds, ServesAtOnceHolds, FormArrivesHolds,
       ClockKeepsTime, PTL
==============================================================================
