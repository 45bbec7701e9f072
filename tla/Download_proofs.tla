--------------------------- MODULE Download_proofs ---------------------------
(***************************************************************************)
(* Proofs about Download, for a file of any size, any sizes of blocks, any *)
(* window whose block numbers differ as shorts, and any number of packets  *)
(* under way: its invariant, and that it implements FileTransfer.  What    *)
(* the window holds is stated over the blocks from the first unanswered    *)
(* one to the last one read, although an older one is still transmitted    *)
(* at times and its place in the ring may hold a newer one by then.        *)
(***************************************************************************)
EXTENDS Download, SequenceTheorems, WellFoundedInduction, TLAPS

Servers ==
    [named : BOOLEAN, open : BOOLEAN, count : 0..FileSize, clientBlock : Nat,
     currentBlock : Nat, xmitBlock : Nat, eof : BOOLEAN, blocks : [0..Window - 1 -> Record]]
Outcomes == {"running", "done", "failed", "stopped"}
Clients == [expected : Nat, outcome : Outcomes]
Commands == [cmd : {"download", "nextdl", "retransdl", "stopdl"}, block : Nat]
Messages == [block : Int, from : Nat, size : Nat \cup {-1}]

------------------------------------------------------------------------------
(* Arithmetic: the places of the ring and the numbers sent as shorts.       *)

\* Division with remainder.
LEMMA DivMod ==
    ASSUME NEW i \in Nat, NEW p \in Nat \ {0}
    PROVE  /\ i \div p \in Nat /\ i % p \in 0..p - 1
           /\ i = p * (i \div p) + (i % p)
BY SMT

\* A multiple between two neighbouring multiples is none.
LEMMA NoMultipleBetween ==
    ASSUME NEW k \in Int, NEW p \in Nat \ {0}
    PROVE  /\ p * k < p => k <= 0
           /\ p * k > -p => k >= 0
<1>1. ASSUME k >= 1 PROVE p * k >= p
    BY <1>1, SMT
<1>2. ASSUME k <= -1 PROVE p * k <= -p
    BY <1>2, SMT
<1>3. p * k \in Int
    OBVIOUS
<1> QED
  BY <1>1, <1>2, <1>3

\* The blocks of a window have places of their own in the ring.
LEMMA OwnPlace ==
    ASSUME NEW a \in Nat, NEW b \in Nat, a < b, b < a + Window
    PROVE  /\ a % Window \in 0..Window - 1 /\ b % Window \in 0..Window - 1
           /\ a % Window # b % Window
<1>1. Window \in Nat \ {0}
    BY DownloadAssumption
<1> DEFINE qa == a \div Window
           qb == b \div Window
<1>2. /\ qa \in Nat /\ a % Window \in 0..Window - 1 /\ a = Window * qa + (a % Window)
      /\ qb \in Nat /\ b % Window \in 0..Window - 1 /\ b = Window * qb + (b % Window)
    BY <1>1, DivMod
<1> HIDE DEF qa, qb
<1>3. ASSUME a % Window = b % Window PROVE FALSE
  <2>1. Window * (qb - qa) = Window * qb - Window * qa
      BY <1>1, <1>2, SMT
  <2>2. Window * qb \in Int /\ Window * qa \in Int /\ qb - qa \in Int
      BY <1>1, <1>2
  <2>3. Window * (qb - qa) < Window /\ Window * (qb - qa) > 0
      BY <1>1, <1>2, <1>3, <2>1, <2>2
  <2>4. qb - qa <= 0
      BY <1>1, <2>2, <2>3, NoMultipleBetween
  <2>5. qa - qb \in Nat /\ Window * (qa - qb) = -(Window * (qb - qa))
      BY <1>1, <1>2, <2>4, SMT
  <2>6. Window * (qa - qb) >= 0
      BY <1>1, <2>5, SMT
  <2>7. Window * (qb - qa) \in Int
      BY <2>1, <2>2
  <2> HIDE DEF qa, qb
  <2> QED
    BY <2>3, <2>5, <2>6, <2>7
<1> QED
  BY <1>2, <1>3

\* A block number the client can expect is the one that was sent, if the window is no larger
\* than the range of a short.
LEMMA ShortTellsBlock ==
    ASSUME NEW b \in Nat, NEW e \in Nat, b < e + Window, ToShort(b) = e
    PROVE  b = e
<1> DEFINE m == 2 * HalfShort
           q == b \div m
<1>1. m \in Nat \ {0} /\ Window \in Nat /\ Window <= m /\ HalfShort \in Nat
    BY DownloadAssumption
<1> HIDE DEF m
<1>2. q \in Nat /\ b % m \in 0..m - 1 /\ b = m * q + (b % m)
    BY <1>1, DivMod
<1> HIDE DEF q
<1>3. b % m = e
  <2>1. ToShort(b) = IF b % m < HalfShort THEN b % m ELSE (b % m) - m
      BY DEF ToShort, m
  <2> QED
    BY <1>1, <1>2, <2>1
<1>4. m * q < m
    BY <1>1, <1>2, <1>3
<1>5. q = 0
    BY <1>1, <1>2, <1>4, NoMultipleBetween
<1>6. m * q = 0
    BY <1>1, <1>5
<1> QED
  BY <1>2, <1>3, <1>6

------------------------------------------------------------------------------
(* The invariant.                                                           *)

\* Block b of the ring.
Rec(s, b) == s.blocks[b % Window]

\* The client is ahead of the answers it has given, and behind the blocks that were read.
Bounds(s) ==
    /\ s.clientBlock <= client.expected /\ client.expected <= s.currentBlock
    /\ s.currentBlock <= s.clientBlock + Window
    /\ s.xmitBlock <= s.currentBlock

\* Every block of the window is of the file, and an empty one is its end, if ok.
Parts(s, ok) ==
    \A b \in s.clientBlock..s.currentBlock - 1 :
        /\ Rec(s, b).from + Rec(s, b).size <= FileSize
        /\ ok /\ Rec(s, b).size = 0 => Rec(s, b).from = FileSize

\* A block begins where the one before it ended; the last one ended where reading goes on.
Joined(s, ok) ==
    /\ \A b \in s.clientBlock..s.currentBlock - 2 :
        ok \/ Rec(s, b + 1).size # 0 =>
            Rec(s, b).from + Rec(s, b).size = Rec(s, b + 1).from
    /\ s.clientBlock < s.currentBlock /\ (ok \/ s.count # FileSize) =>
        Rec(s, s.currentBlock - 1).from + Rec(s, s.currentBlock - 1).size = s.count

\* Of the blocks the client has and the server does not know of, the one that completed the
\* download is empty and no other.
Unanswered(s) ==
    \A b \in s.clientBlock..client.expected - 1 :
        Rec(s, b).size = 0 <=> (client.outcome = "done" /\ b = client.expected - 1)

\* What the client waits for begins where the units it has end.
Placed(s, ok) ==
    Running =>
        /\ client.expected < s.currentBlock /\ (ok \/ Rec(s, client.expected).size # 0) =>
            Rec(s, client.expected).from = Len(got)
        /\ client.expected = s.currentBlock /\ (ok \/ s.count # FileSize) =>
            s.count = Len(got)

RingOK(s, ok) == Bounds(s) /\ Parts(s, ok) /\ Joined(s, ok) /\ Unanswered(s) /\ Placed(s, ok)

\* A message under way is a refusal or a block that was read, with what the window holds.
Sent(s, m) ==
    \/ m.size = -1
    \/ \E b \in 0..s.currentBlock - 1 :
        /\ m.block = ToShort(b) /\ m.size \in Nat
        /\ b >= s.clientBlock => m.from = Rec(s, b).from /\ m.size = Rec(s, b).size

\* Before the request for the file is read.
Asked == [cmd |-> "download", block |-> 0]
Stopping == [cmd |-> "stopdl", block |-> 0]
Asking ==
    /\ server = Idle /\ down = <<>> /\ client.expected = 0 /\ got = <<>>
    /\ \/ up = <<Asked>> /\ client.outcome = "running"
       \/ up = <<Asked, Stopping>> /\ client.outcome = "stopped"

\* The answers under way are those to the blocks the server does not know to have arrived, in
\* order; only the one that completed the download may have been read already.
Answered ==
    /\ \A i \in DOMAIN up : up[i].cmd = "nextdl" =>
        server.clientBlock <= up[i].block /\ up[i].block < client.expected
    /\ \A i, j \in DOMAIN up :
        i < j /\ up[i].cmd = "nextdl" /\ up[j].cmd = "nextdl" => up[i].block < up[j].block
    /\ \A b \in server.clientBlock..client.expected - 1 :
        \/ \E i \in DOMAIN up : up[i].cmd = "nextdl" /\ up[i].block = b
        \/ client.outcome = "done" /\ b = client.expected - 1

DownloadTypes ==
    /\ permission \in Permissions /\ disk \in 0..FileSize
    /\ overdue \in BOOLEAN /\ dropped \in BOOLEAN /\ intact \in BOOLEAN
    /\ server \in Servers /\ client \in Clients
    /\ down \in Seq(Messages) /\ up \in Seq(Commands)
    /\ got \in Seq(1..FileSize)

IInv ==
    /\ DownloadTypes
    /\ NeverBroken
    /\ RingOK(server, intact)
    /\ intact => disk = FileSize
    /\ server.named /\ ~server.open =>
        server.clientBlock = 0 /\ server.currentBlock = 0 /\ server.count = 0
    /\ \A i \in DOMAIN down : Sent(server, down[i])
    /\ Asking \/ \A i \in DOMAIN up : up[i].cmd # "download"
    /\ Answered
    /\ \A i \in DOMAIN up : up[i].cmd = "stopdl" => client.outcome = "stopped"
    /\ ~Asking /\ Allowed /\ ~server.named => ~Running

------------------------------------------------------------------------------
(* Reading: the window grows at its end.                                    *)

\* The step t has read more than s, and the blocks in the window are as they were.
Extends(s, t) ==
    /\ t \in Servers
    /\ t.clientBlock = s.clientBlock /\ s.currentBlock <= t.currentBlock
    /\ t.xmitBlock = s.xmitBlock /\ t.named = s.named /\ t.open = s.open
    /\ \A b \in s.clientBlock..s.currentBlock - 1 : Rec(t, b) = Rec(s, b)

\* A block read into the place after the window.
LEMMA BlockRead ==
    ASSUME NEW ok \in BOOLEAN, NEW s \in Servers, RingOK(s, ok), InWindow(s),
           client.expected \in Nat, NEW r \in Record, NEW t \in Servers,
           t.blocks = [s.blocks EXCEPT ![s.currentBlock % Window] = r],
           t.currentBlock = s.currentBlock + 1, t.clientBlock = s.clientBlock,
           t.xmitBlock = s.xmitBlock, t.named = s.named, t.open = s.open,
           r.from + r.size <= FileSize, ok /\ r.size = 0 => r.from = FileSize,
           ok \/ r.size # 0 => (ok \/ s.count # FileSize) /\ r.from = s.count,
           ok \/ t.count # FileSize => r.from + r.size = t.count
    PROVE  RingOK(t, ok) /\ Extends(s, t)
<1> DEFINE c == s.clientBlock
           n == s.currentBlock
           e == client.expected
<1>1. c \in Nat /\ n \in Nat /\ Window \in Nat \ {0} /\ n < c + Window
      /\ c <= e /\ e <= n /\ s.xmitBlock <= n /\ s.xmitBlock \in Nat
    BY DownloadAssumption DEF InWindow, Servers, RingOK, Bounds
<1>2. s.blocks \in [0..Window - 1 -> Record] /\ n % Window \in 0..Window - 1
  <2>1. n % Window \in 0..Window - 1
      BY <1>1, DivMod
  <2> QED
    BY <2>1 DEF Servers
<1>3. Rec(t, n) = r
    BY <1>2 DEF Rec
<1>4. ASSUME NEW b \in c..n - 1 PROVE Rec(t, b) = Rec(s, b)
  <2>1. b \in Nat /\ b < n /\ n < b + Window
      BY <1>1
  <2>2. b % Window # n % Window /\ b % Window \in 0..Window - 1
      BY <1>1, <2>1, OwnPlace
  <2> HIDE DEF n, c
  <2>3. t.blocks[b % Window] = s.blocks[b % Window]
      BY <1>2, <2>2 DEF n
  <2> QED
    BY <2>3 DEF Rec
<1> HIDE DEF c, n, e
<1>5. t.clientBlock = c /\ t.currentBlock = n + 1 /\ client.expected = e
      /\ s.clientBlock = c /\ s.currentBlock = n /\ s.count \in 0..FileSize
      /\ t.xmitBlock = s.xmitBlock
    BY DEF c, n, e, Servers
<1>6. e \in Nat
    BY DEF e
<1>7. Bounds(t)
    BY <1>1, <1>5, <1>6 DEF Bounds
<1>8. Parts(t, ok)
  <2>1. \A b \in c..n - 1 :
            /\ Rec(s, b).from + Rec(s, b).size <= FileSize
            /\ ok /\ Rec(s, b).size = 0 => Rec(s, b).from = FileSize
      BY <1>5 DEF RingOK, Parts
  <2>2. \A b \in c..(n + 1) - 1 : b = n \/ b \in c..n - 1
      BY <1>1
  <2> QED
    BY <1>3, <1>4, <1>5, <2>1, <2>2 DEF Parts
<1>9. Joined(t, ok)
  <2>1. \A b \in c..n - 2 :
            ok \/ Rec(s, b + 1).size # 0 => Rec(s, b).from + Rec(s, b).size = Rec(s, b + 1).from
      BY <1>5 DEF RingOK, Joined
  <2>2. c < n /\ (ok \/ s.count # FileSize) =>
            Rec(s, n - 1).from + Rec(s, n - 1).size = s.count
      BY <1>5 DEF RingOK, Joined
  <2>3. ASSUME NEW b \in c..(n + 1) - 2, ok \/ Rec(t, b + 1).size # 0
        PROVE  Rec(t, b).from + Rec(t, b).size = Rec(t, b + 1).from
    <3>1. CASE b = n - 1
      <4>1. b + 1 = n /\ b \in c..n - 1 /\ c < n
          BY <1>1, <3>1
      <4>2. Rec(t, b + 1) = r /\ Rec(t, b) = Rec(s, n - 1)
          BY <1>3, <1>4, <3>1, <4>1
      <4> QED
        BY <2>2, <2>3, <4>1, <4>2
    <3>2. CASE b # n - 1
      <4>1. b \in c..n - 2 /\ b \in c..n - 1 /\ b + 1 \in c..n - 1
          BY <1>1, <3>2
      <4>2. Rec(t, b) = Rec(s, b) /\ Rec(t, b + 1) = Rec(s, b + 1)
          BY <1>4, <4>1
      <4> QED
        BY <2>1, <2>3, <4>1, <4>2
    <3> QED
      BY <3>1, <3>2
  <2>4. ok \/ t.count # FileSize =>
            Rec(t, (n + 1) - 1).from + Rec(t, (n + 1) - 1).size = t.count
    <3>1. (n + 1) - 1 = n
        BY <1>1
    <3> QED
      BY <1>3, <3>1
  <2> QED
    BY <1>5, <2>3, <2>4 DEF Joined
<1>10. Unanswered(t)
  <2>1. \A b \in c..e - 1 : b \in c..n - 1
      BY <1>1, <1>6
  <2>2. \A b \in c..e - 1 : Rec(s, b).size = 0 <=> (client.outcome = "done" /\ b = e - 1)
      BY <1>5 DEF RingOK, Unanswered
  <2> QED
    BY <1>4, <1>5, <2>1, <2>2 DEF Unanswered
<1>11. Placed(t, ok)
  <2> SUFFICES ASSUME Running, ok \/ Rec(t, e).size # 0
               PROVE  Rec(t, e).from = Len(got)
    <3>1. e # n + 1
        BY <1>1, <1>6
    <3> QED
      BY <1>5, <3>1 DEF Placed
  <2>1. /\ e < n /\ (ok \/ Rec(s, e).size # 0) => Rec(s, e).from = Len(got)
        /\ e = n /\ (ok \/ s.count # FileSize) => s.count = Len(got)
      BY <1>5 DEF RingOK, Placed
  <2>2. CASE e < n
    <3>1. e \in c..n - 1
        BY <1>1, <1>6, <2>2
    <3> QED
      BY <1>4, <2>1, <2>2, <3>1
  <2>3. CASE e = n
      BY <1>3, <2>1, <2>3
  <2> QED
    BY <1>1, <1>6, <2>2, <2>3
<1>12. Extends(s, t)
    BY <1>1, <1>4, <1>5 DEF Extends
<1> QED
  BY <1>7, <1>8, <1>9, <1>10, <1>11, <1>12 DEF RingOK

\* FS_Read of one block.
LEMMA ReadKeeps ==
    ASSUME NEW ok \in BOOLEAN, NEW s \in Servers, RingOK(s, ok), HasMore(s),
           client.expected \in Nat, disk \in 0..FileSize, ok => disk = FileSize,
           NEW size \in BlockSizes
    PROVE  RingOK(Read(s, size), ok) /\ Extends(s, Read(s, size))
<1> DEFINE left == IF disk > s.count THEN disk - s.count ELSE 0
           n == IF size < left THEN size ELSE left
           r == [from |-> s.count, size |-> n]
           t == Read(s, size)
<1>1. size \in Nat \ {0} /\ FileSize \in Nat /\ Window \in Nat \ {0}
    BY DownloadAssumption
<1>2. s.count \in 0..FileSize /\ s.count # FileSize /\ InWindow(s) /\ s.currentBlock \in Nat
    BY DEF HasMore, Servers
<1>3. n \in 0..FileSize /\ s.count + n <= FileSize /\ (ok => n # 0)
    BY <1>1, <1>2
<1> HIDE DEF n
<1>4. r \in Record /\ r.from = s.count /\ r.size = n
    BY <1>2, <1>3 DEF Record
<1>5. t = [s EXCEPT !.blocks[s.currentBlock % Window] = r, !.count = @ + n, !.currentBlock = @ + 1]
    BY DEF Read, n
<1> HIDE DEF r, t
<1>6. s.currentBlock % Window \in 0..Window - 1
    BY <1>1, <1>2, DivMod
<1>7. /\ t \in Servers
      /\ t.blocks = [s.blocks EXCEPT ![s.currentBlock % Window] = r]
      /\ t.currentBlock = s.currentBlock + 1 /\ t.clientBlock = s.clientBlock
      /\ t.xmitBlock = s.xmitBlock /\ t.named = s.named /\ t.open = s.open
      /\ t.count = s.count + n
  <2> DEFINE blocks == [s.blocks EXCEPT ![s.currentBlock % Window] = r]
  <2>1. blocks \in [0..Window - 1 -> Record]
      BY <1>4, <1>6 DEF Servers
  <2>2. t = [s EXCEPT !.blocks = blocks, !.count = s.count + n,
                      !.currentBlock = s.currentBlock + 1]
      BY <1>5 DEF Servers
  <2>3. s.count + n \in 0..FileSize
      BY <1>1, <1>2, <1>3
  <2> HIDE DEF blocks
  <2>4. /\ t \in Servers /\ t.blocks = blocks
        /\ t.currentBlock = s.currentBlock + 1 /\ t.clientBlock = s.clientBlock
        /\ t.xmitBlock = s.xmitBlock /\ t.named = s.named /\ t.open = s.open
        /\ t.count = s.count + n
    <3>1. s.currentBlock + 1 \in Nat
        BY <1>2
    <3> QED
      BY <2>1, <2>2, <2>3, <3>1 DEF Servers
  <2> QED
    BY <2>4 DEF blocks
<1>8. RingOK(t, ok) /\ Extends(s, t)
    BY <1>2, <1>3, <1>4, <1>7, BlockRead
<1> QED
  BY <1>8 DEF t

\* The empty block at the end of the file.
LEMMA EndedKeeps ==
    ASSUME NEW ok \in BOOLEAN, NEW s \in Servers, RingOK(s, ok), client.expected \in Nat
    PROVE  RingOK(Ended(s), ok) /\ Extends(s, Ended(s))
<1>1. CASE ~(s.count = FileSize /\ ~s.eof /\ InWindow(s))
  <2>1. Ended(s) = s
      BY <1>1 DEF Ended
  <2>2. s.currentBlock \in Nat
      BY DEF Servers
  <2> QED
    BY <2>1, <2>2 DEF Extends
<1>2. CASE s.count = FileSize /\ ~s.eof /\ InWindow(s)
  <2> DEFINE r == [from |-> s.count, size |-> 0]
             t == Ended(s)
  <2>1. FileSize \in Nat /\ Window \in Nat \ {0} /\ s.currentBlock \in Nat
      BY DownloadAssumption DEF Servers
  <2>2. r \in Record /\ r.from = FileSize /\ r.size = 0
      BY <1>2, <2>1 DEF Record
  <2>3. t = [s EXCEPT !.blocks[s.currentBlock % Window] = r, !.currentBlock = @ + 1, !.eof = TRUE]
      BY <1>2 DEF Ended
  <2> HIDE DEF r, t
  <2>4. s.currentBlock % Window \in 0..Window - 1
      BY <2>1, DivMod
  <2>5. /\ t \in Servers
        /\ t.blocks = [s.blocks EXCEPT ![s.currentBlock % Window] = r]
        /\ t.currentBlock = s.currentBlock + 1 /\ t.clientBlock = s.clientBlock
        /\ t.xmitBlock = s.xmitBlock /\ t.named = s.named /\ t.open = s.open
        /\ t.count = s.count
    <3> DEFINE blocks == [s.blocks EXCEPT ![s.currentBlock % Window] = r]
    <3>1. blocks \in [0..Window - 1 -> Record]
        BY <2>2, <2>4 DEF Servers
    <3>2. t = [s EXCEPT !.blocks = blocks, !.currentBlock = s.currentBlock + 1, !.eof = TRUE]
        BY <2>3 DEF Servers
    <3> HIDE DEF blocks
    <3>3. /\ t \in Servers /\ t.blocks = blocks
          /\ t.currentBlock = s.currentBlock + 1 /\ t.clientBlock = s.clientBlock
          /\ t.xmitBlock = s.xmitBlock /\ t.named = s.named /\ t.open = s.open
          /\ t.count = s.count
      <4>1. s.currentBlock + 1 \in Nat
          BY <2>1
      <4> QED
        BY <3>1, <3>2, <4>1 DEF Servers
    <3> QED
      BY <3>3 DEF blocks
  <2>6. RingOK(t, ok) /\ Extends(s, t)
    <3>1. r.from + r.size <= FileSize /\ r.from + r.size = t.count
        BY <1>2, <2>1, <2>2, <2>5
    <3> QED
      BY <1>2, <2>1, <2>2, <2>5, <3>1, BlockRead
  <2> QED
    BY <2>6 DEF t
<1> QED
  BY <1>1, <1>2

\* One extension after another is one.
LEMMA ExtendsTransitive ==
    ASSUME NEW s \in Servers, NEW t, NEW u, Extends(s, t), Extends(t, u)
    PROVE  Extends(s, u)
<1>1. /\ s.clientBlock \in Nat /\ s.currentBlock \in Nat
      /\ t.clientBlock \in Nat /\ t.currentBlock \in Nat
      /\ u.clientBlock \in Nat /\ u.currentBlock \in Nat
    BY DEF Extends, Servers
<1>2. \A b \in s.clientBlock..s.currentBlock - 1 : b \in t.clientBlock..t.currentBlock - 1
    BY <1>1 DEF Extends
<1> QED
  BY <1>1, <1>2 DEF Extends

------------------------------------------------------------------------------
(* The loop that fills the window, a recursive function.                    *)

Filled(s, size, f, i) ==
    IF i = 0 THEN s
    ELSE IF HasMore(f[i - 1]) THEN Read(f[i - 1], size) ELSE f[i - 1]

IsFill(s, size, f, n) == f = [i \in 0..n |-> Filled(s, size, f, i)]

\* A nonempty set of natural numbers has a least element.
LEMMA LeastElement ==
    ASSUME NEW T, T \subseteq Nat, T # {}
    PROVE  \E x \in T : \A y \in T : x <= y
<1>1. PICK x \in T : \A y \in T : <<y, x>> \notin OpToRel(<, Nat)
    BY NatLessThanWellFounded, WFMin
<1>2. \A y \in T : ~(y < x)
    BY <1>1 DEF OpToRel
<1> QED
  BY <1>2

\* There is a function that satisfies the equation of the loop: no number of rounds is the first
\* for which there is none.
LEMMA FillExists ==
    ASSUME NEW s, NEW size, NEW n \in Nat
    PROVE  \E f : IsFill(s, size, f, n)
<1> DEFINE Bad == {k \in Nat : ~ \E f : IsFill(s, size, f, k)}
<1>1. SUFFICES ASSUME Bad # {} PROVE FALSE
    OBVIOUS
<1>2. PICK k \in Bad : \A j \in Bad : k <= j
  <2>1. Bad \subseteq Nat
      OBVIOUS
  <2> HIDE DEF Bad
  <2> QED
    BY <1>1, <2>1, LeastElement
<1>3. k # 0
  <2>1. IsFill(s, size, [i \in 0..0 |-> s], 0)
    <3>1. \A i \in 0..0 : i = 0
        OBVIOUS
    <3> QED
      BY <3>1 DEF IsFill, Filled
  <2> QED
    BY <2>1
<1>4. k - 1 \in Nat /\ k - 1 \notin Bad
    BY <1>2, <1>3
<1>5. PICK f : IsFill(s, size, f, k - 1)
    BY <1>4
<1> DEFINE g == [i \in 0..k |-> IF i < k THEN f[i] ELSE Filled(s, size, f, i)]
<1>6. IsFill(s, size, g, k)
  <2>1. ASSUME NEW i \in 0..k PROVE g[i] = Filled(s, size, g, i)
    <3>1. Filled(s, size, g, i) = Filled(s, size, f, i)
      <4>1. CASE i = 0
          BY <4>1 DEF Filled
      <4>2. CASE i # 0
        <5>1. i - 1 \in 0..k /\ i - 1 < k
            BY <1>2, <4>2
        <5>2. g[i - 1] = f[i - 1]
            BY <5>1
        <5> HIDE DEF g
        <5> QED
          BY <4>2, <5>2 DEF Filled
      <4> QED
        BY <4>1, <4>2
    <3>2. g[i] = Filled(s, size, f, i)
      <4>1. CASE i < k
        <5>1. i \in 0..k - 1
            BY <1>2, <4>1
        <5>2. f[i] = Filled(s, size, f, i)
            BY <1>5, <5>1 DEF IsFill
        <5> QED
          BY <4>1, <5>2
      <4>2. CASE ~(i < k)
          BY <4>2
      <4> QED
        BY <4>1, <4>2
    <3> QED
      BY <3>1, <3>2
  <2>2. g = [i \in 0..k |-> g[i]]
      OBVIOUS
  <2> HIDE DEF g
  <2> QED
    BY <2>1, <2>2 DEF IsFill
<1> QED
  BY <1>2, <1>6

\* The window is filled by such a loop.
LEMMA ReadsFill ==
    ASSUME NEW s, NEW size, NEW n \in Nat
    PROVE  \E f : IsFill(s, size, f, n) /\ Reads(s, size, n) = f[n]
<1> DEFINE f == CHOOSE g : IsFill(s, size, g, n)
<1>1. IsFill(s, size, f, n)
  <2>1. \E g : IsFill(s, size, g, n)
      BY FillExists
  <2> QED
    BY <2>1
<1>2. Reads(s, size, n) = f[n]
    BY DEF Reads, IsFill, Filled
<1> QED
  BY <1>1, <1>2

\* Filling the window keeps what holds of it.
LEMMA ReadsKeep ==
    ASSUME NEW ok \in BOOLEAN, NEW s \in Servers, RingOK(s, ok), client.expected \in Nat,
           disk \in 0..FileSize, ok => disk = FileSize, NEW size \in BlockSizes, NEW n \in Nat
    PROVE  RingOK(Reads(s, size, n), ok) /\ Extends(s, Reads(s, size, n))
<1> DEFINE Sound(t) == RingOK(t, ok) /\ Extends(s, t)
<1>1. PICK f : IsFill(s, size, f, n) /\ Reads(s, size, n) = f[n]
    BY ReadsFill
<1>2. \A i \in 0..n : f[i] = Filled(s, size, f, i)
    BY <1>1 DEF IsFill
<1>3. Sound(f[0])
  <2>1. f[0] = s
      BY <1>2 DEF Filled
  <2>2. Extends(s, s)
    <3>1. s.currentBlock \in Nat
        BY DEF Servers
    <3> QED
      BY <3>1 DEF Extends
  <2> QED
    BY <2>1, <2>2
<1>4. ASSUME NEW i \in 0..n, i # 0, Sound(f[i - 1])
      PROVE  Sound(f[i])
  <2> DEFINE t == f[i - 1]
  <2>1. f[i] = IF HasMore(t) THEN Read(t, size) ELSE t
      BY <1>2, <1>4 DEF Filled
  <2>2. t \in Servers /\ RingOK(t, ok) /\ Extends(s, t)
      BY <1>4 DEF Extends
  <2> HIDE DEF t
  <2>3. CASE HasMore(t)
    <3> DEFINE u == Read(t, size)
    <3>1. RingOK(u, ok) /\ Extends(t, u)
        BY <2>2, <2>3, ReadKeeps
    <3> HIDE DEF u
    <3>2. Extends(s, u)
        BY <2>2, <3>1, ExtendsTransitive
    <3> QED
      BY <2>1, <2>3, <3>1, <3>2 DEF u
  <2>4. CASE ~HasMore(t)
      BY <2>1, <2>2, <2>4
  <2> QED
    BY <2>3, <2>4
<1> HIDE DEF Sound
<1>5. \A i \in 0..n : Sound(f[i])
  <2> DEFINE Bad == {i \in 0..n : ~Sound(f[i])}
  <2>1. SUFFICES ASSUME Bad # {} PROVE FALSE
      OBVIOUS
  <2>2. PICK i \in Bad : \A j \in Bad : i <= j
    <3>1. Bad \subseteq Nat
        OBVIOUS
    <3> HIDE DEF Bad
    <3> QED
      BY <2>1, <3>1, LeastElement
  <2>3. i \in 0..n /\ i # 0
      BY <1>3, <2>2
  <2>4. i - 1 \in 0..n /\ i - 1 \notin Bad
      BY <2>2, <2>3
  <2> QED
    BY <1>4, <2>2, <2>3, <2>4
<1>6. Sound(Reads(s, size, n))
    BY <1>1, <1>5
<1> QED
  BY <1>6 DEF Sound

\* Less is asked of the window once the file is damaged.
LEMMA RingDamaged ==
    ASSUME NEW ok \in BOOLEAN, NEW s, RingOK(s, ok)
    PROVE  RingOK(s, FALSE)
<1>1. Bounds(s) /\ Unanswered(s)
    BY DEF RingOK
<1>2. Parts(s, FALSE)
    BY DEF RingOK, Parts
<1>3. Joined(s, FALSE)
    BY DEF RingOK, Joined
<1>4. Placed(s, FALSE)
    BY DEF RingOK, Placed
<1> QED
  BY <1>1, <1>2, <1>3, <1>4 DEF RingOK

\* Giving up the rest of the file.
LEMMA GivenUpKeeps ==
    ASSUME NEW s \in Servers, RingOK(s, FALSE)
    PROVE  RingOK(GivenUp(s), FALSE) /\ Extends(s, GivenUp(s))
<1> DEFINE t == GivenUp(s)
<1>1. FileSize \in Nat /\ s.currentBlock \in Nat
    BY DownloadAssumption DEF Servers
<1>2. /\ t \in Servers /\ t.blocks = s.blocks /\ t.currentBlock = s.currentBlock
      /\ t.clientBlock = s.clientBlock /\ t.xmitBlock = s.xmitBlock /\ t.named = s.named
      /\ t.open = s.open /\ t.count = FileSize
    BY <1>1 DEF GivenUp, Servers
<1> HIDE DEF t
<1>3. \A b : Rec(t, b) = Rec(s, b)
    BY <1>2 DEF Rec
<1>4. Bounds(t)
    BY <1>2 DEF RingOK, Bounds
<1>5. Parts(t, FALSE)
    BY <1>2, <1>3 DEF RingOK, Parts
<1>6. Joined(t, FALSE)
    BY <1>2, <1>3 DEF RingOK, Joined
<1>7. Unanswered(t)
    BY <1>2, <1>3 DEF RingOK, Unanswered
<1>8. Placed(t, FALSE)
    BY <1>2, <1>3 DEF RingOK, Placed
<1>9. Extends(s, t)
    BY <1>1, <1>2, <1>3 DEF Extends
<1>10. RingOK(t, FALSE)
    BY <1>4, <1>5, <1>6, <1>7, <1>8 DEF RingOK
<1> QED
  BY <1>9, <1>10 DEF t

\* What RingOK asks of the fields a step does not touch.
LEMMA RingAlike ==
    ASSUME NEW ok \in BOOLEAN, NEW s, NEW t, RingOK(s, ok), t.blocks = s.blocks,
           t.count = s.count, t.currentBlock = s.currentBlock, t.clientBlock = s.clientBlock,
           t.xmitBlock <= t.currentBlock
    PROVE  RingOK(t, ok)
<1>1. \A b : Rec(t, b) = Rec(s, b)
    BY DEF Rec
<1>2. Bounds(t)
    BY DEF RingOK, Bounds
<1>3. Parts(t, ok)
    BY <1>1 DEF RingOK, Parts
<1>4. Joined(t, ok)
    BY <1>1 DEF RingOK, Joined
<1>5. Unanswered(t)
    BY <1>1 DEF RingOK, Unanswered
<1>6. Placed(t, ok)
    BY <1>1 DEF RingOK, Placed
<1> QED
  BY <1>2, <1>3, <1>4, <1>5, <1>6 DEF RingOK

------------------------------------------------------------------------------
(* Every action keeps the invariant.                                        *)

\* Taking the first element of a queue.
LEMMA Taken ==
    ASSUME NEW S, NEW net \in Seq(S), net # <<>>
    PROVE  /\ DOMAIN net = 1..Len(net) /\ Len(net) \in Nat \ {0}
           /\ 1 \in DOMAIN net /\ Head(net) = net[1] /\ Head(net) \in S
           /\ Tail(net) \in Seq(S)
           /\ DOMAIN Tail(net) = 1..(Len(net) - 1)
           /\ \A i \in DOMAIN Tail(net) :
                i \in Nat /\ i + 1 \in DOMAIN net /\ Tail(net)[i] = net[i + 1]
OBVIOUS

\* Appending an element to a queue.
LEMMA Appended ==
    ASSUME NEW S, NEW net \in Seq(S), NEW x \in S
    PROVE  /\ DOMAIN net = 1..Len(net) /\ Len(net) \in Nat
           /\ Append(net, x) \in Seq(S)
           /\ DOMAIN Append(net, x) = 1..(Len(net) + 1)
           /\ \A i \in DOMAIN net : Append(net, x)[i] = net[i]
           /\ Append(net, x)[Len(net) + 1] = x
OBVIOUS

LEMMA AppendedToOne ==
    ASSUME NEW S, NEW x \in S, NEW y \in S
    PROVE  Append(<<x>>, y) = <<x, y>>
<1> DEFINE s == <<x>>
           t == <<x, y>>
           u == Append(s, y)
<1>1. s \in Seq(S) /\ Len(s) = 1 /\ s[1] = x
    OBVIOUS
<1>2. t \in Seq(S) /\ Len(t) = 2 /\ t[1] = x /\ t[2] = y
    OBVIOUS
<1> HIDE DEF s
<1>3. u \in Seq(S) /\ Len(u) = 2 /\ u[1] = x /\ u[2] = y
    BY <1>1 DEF s
<1> HIDE DEF t, u
<1>4. \A i \in 1..Len(t) : t[i] = u[i]
    BY <1>2, <1>3
<1>5. t = u
    BY <1>2, <1>3, <1>4, SeqEqual
<1> QED
  BY <1>5 DEF s, t, u

\* The numbers of the session.
LEMMA Numbers ==
    ASSUME IInv
    PROVE  /\ server.clientBlock \in Nat /\ server.currentBlock \in Nat
           /\ server.xmitBlock \in Nat /\ server.count \in 0..FileSize
           /\ client.expected \in Nat /\ client.outcome \in Outcomes
           /\ FileSize \in Nat \ {0} /\ Window \in Nat \ {0} /\ HalfShort \in Nat \ {0}
           /\ server.clientBlock <= client.expected
           /\ client.expected <= server.currentBlock
           /\ server.currentBlock <= server.clientBlock + Window
           /\ server.xmitBlock <= server.currentBlock
BY DownloadAssumption DEF IInv, DownloadTypes, Servers, Clients, RingOK, Bounds

\* A record of the ring.
LEMMA RecType ==
    ASSUME NEW s \in Servers, NEW b \in Nat
    PROVE  /\ Rec(s, b) \in Record /\ Rec(s, b).from \in 0..FileSize
           /\ Rec(s, b).size \in 0..FileSize
<1>1. Window \in Nat \ {0}
    BY DownloadAssumption
<1>2. b % Window \in 0..Window - 1
    BY <1>1, DivMod
<1>3. Rec(s, b) \in Record
    BY <1>2 DEF Rec, Servers
<1> QED
  BY <1>3 DEF Record

LEMMA ToShortType ==
    ASSUME NEW b \in Nat
    PROVE  ToShort(b) \in Int
<1>1. 2 * HalfShort \in Nat \ {0} /\ HalfShort \in Nat
    BY DownloadAssumption
<1>2. b % (2 * HalfShort) \in Int
    BY <1>1, DivMod
<1> QED
  BY <1>1, <1>2 DEF ToShort

\* A server that has read more in a snapshot, and sends a block or nothing.
LEMMA Transmitted ==
    ASSUME IInv, server.named, NEW o \in Servers, NEW s, Extends(o, s), o.open, o.named,
           o.clientBlock = server.clientBlock, o.currentBlock = server.currentBlock,
           o.blocks = server.blocks, RingOK(s, intact'), intact' \in BOOLEAN,
           intact' => intact, Transmit(s),
           UNCHANGED <<permission, disk, up, client, got, dropped>>
    PROVE  IInv'
<1> DEFINE b == Chosen(s)
           m == Block(s, b)
<1>1. /\ s \in Servers /\ s.clientBlock \in Nat /\ s.currentBlock \in Nat /\ s.xmitBlock \in Nat
      /\ s.open /\ s.named /\ s.clientBlock = server.clientBlock
      /\ server.currentBlock <= s.currentBlock
      /\ s.clientBlock <= s.currentBlock /\ s.xmitBlock <= s.currentBlock
  <2>1. /\ s \in Servers /\ s.clientBlock = server.clientBlock
        /\ server.currentBlock <= s.currentBlock /\ s.open /\ s.named
      BY DEF Extends
  <2>2. s.clientBlock \in Nat /\ s.currentBlock \in Nat /\ s.xmitBlock \in Nat
      BY <2>1 DEF Servers
  <2>3. s.clientBlock <= client.expected /\ client.expected <= s.currentBlock
        /\ s.xmitBlock <= s.currentBlock
      BY DEF RingOK, Bounds
  <2> QED
    BY <2>1, <2>2, <2>3, Numbers
<1>2. \A x \in server.clientBlock..server.currentBlock - 1 : Rec(s, x) = Rec(server, x)
    BY DEF Extends, Rec
<1>3. ~NothingToSend(s) => b \in 0..s.currentBlock - 1
    BY <1>1 DEF NothingToSend, Chosen
<1>4. ~NothingToSend(s) =>
        m \in Messages /\ m.block = ToShort(b) /\ m.from = Rec(s, b).from
        /\ m.size = Rec(s, b).size
  <2>1. SUFFICES ASSUME ~NothingToSend(s)
                 PROVE  m \in Messages /\ m.block = ToShort(b) /\ m.from = Rec(s, b).from
                        /\ m.size = Rec(s, b).size
      OBVIOUS
  <2>2. b \in Nat
      BY <1>1, <1>3, <2>1
  <2>3. Rec(s, b).from \in Nat /\ Rec(s, b).size \in Nat /\ ToShort(b) \in Int
      BY <1>1, <2>2, RecType, ToShortType, DownloadAssumption
  <2> HIDE DEF b
  <2> QED
    BY <2>3 DEF Block, Messages, Rec
<1>5. \/ NothingToSend(s) /\ server' = s /\ overdue' = overdue /\ down' = down
      \/ /\ ~NothingToSend(s) /\ down' = Append(down, m)
         /\ server' = [s EXCEPT !.xmitBlock = b + 1] /\ overdue' = FALSE
    BY DEF Transmit
<1> HIDE DEF b, m
<1>6. /\ server' \in Servers /\ server'.clientBlock = s.clientBlock
      /\ server'.currentBlock = s.currentBlock /\ server'.count = s.count
      /\ server'.blocks = s.blocks /\ server'.named /\ server'.open
      /\ server'.xmitBlock <= server'.currentBlock
  <2>1. CASE server' = s
      BY <1>1, <2>1
  <2>2. CASE server' = [s EXCEPT !.xmitBlock = b + 1] /\ b \in 0..s.currentBlock - 1
    <3>1. b + 1 \in Nat /\ b + 1 <= s.currentBlock
        BY <1>1, <2>2
    <3> QED
      BY <1>1, <2>2, <3>1 DEF Servers
  <2> QED
    BY <1>3, <1>5, <2>1, <2>2
<1>7. \A x : Rec(server', x) = Rec(s, x)
    BY <1>6 DEF Rec
<1>8. RingOK(server, intact)'
  <2>1. RingOK(server', intact')
      BY <1>6, RingAlike
  <2> QED
    BY <2>1 DEF RingOK, Bounds, Parts, Joined, Unanswered, Placed, Running, Rec
<1>9. down' \in Seq(Messages)
      /\ \A i \in DOMAIN down' :
            (i \in DOMAIN down /\ down'[i] = down[i]) \/ (~NothingToSend(s) /\ down'[i] = m)
  <2>1. down \in Seq(Messages)
      BY DEF IInv, DownloadTypes
  <2> QED
    BY <1>4, <1>5, <2>1, Appended
<1>10. DownloadTypes'
    BY <1>5, <1>6, <1>9 DEF IInv, DownloadTypes
<1>11. \A i \in DOMAIN down' : Sent(server, down[i])'
  <2>1. TAKE i \in DOMAIN down'
  <2>2. SUFFICES ASSUME down'[i].size # -1
                 PROVE  \E x \in 0..server'.currentBlock - 1 :
                            /\ down'[i].block = ToShort(x) /\ down'[i].size \in Nat
                            /\ x >= server'.clientBlock =>
                                /\ down'[i].from = Rec(s, x).from
                                /\ down'[i].size = Rec(s, x).size
      BY <1>7 DEF Sent, Rec
  <2>3. CASE i \in DOMAIN down /\ down'[i] = down[i]
    <3>1. PICK x \in 0..server.currentBlock - 1 :
                /\ down[i].block = ToShort(x) /\ down[i].size \in Nat
                /\ x >= server.clientBlock =>
                    down[i].from = Rec(server, x).from /\ down[i].size = Rec(server, x).size
        BY <2>2, <2>3 DEF IInv, Sent
    <3>2. x \in 0..server'.currentBlock - 1
        BY <1>1, <1>6, Numbers
    <3>3. x >= server.clientBlock => Rec(s, x) = Rec(server, x)
        BY <1>2, Numbers
    <3> QED
      BY <1>1, <1>6, <2>3, <3>1, <3>2, <3>3
  <2>4. CASE ~NothingToSend(s) /\ down'[i] = m
    <3>1. b \in 0..server'.currentBlock - 1 /\ b \in Nat
        BY <1>1, <1>3, <1>6, <2>4
    <3>2. m.size \in Nat
        BY <1>1, <1>4, <2>4, <3>1, RecType, DownloadAssumption
    <3> QED
      BY <1>4, <2>4, <3>1, <3>2
  <2> QED
    BY <1>9, <2>3, <2>4
<1>12. ~Asking /\ \A i \in DOMAIN up : up[i].cmd # "download"
    BY DEF IInv, Asking, Idle
<1>13. Answered'
    BY <1>1, <1>6 DEF IInv, Answered
<1> QED
  BY <1>6, <1>8, <1>10, <1>11, <1>12, <1>13 DEF IInv, NeverBroken

LEMMA SnapshotTaken ==
    ASSUME IInv, Snapshot
    PROVE  IInv'
<1>1. server.named /\ UNCHANGED <<permission, disk, up, client, got, dropped>>
    BY DEF Snapshot
<1>2. CASE ~server.open /\ ~Allowed /\ Refuse /\ UNCHANGED intact
  <2> DEFINE m == [block |-> 0, from |-> 0, size |-> -1]
  <2>1. /\ down' = Append(down, m) /\ server' = [server EXCEPT !.named = FALSE]
        /\ overdue' = overdue /\ intact' = intact
      BY <1>2 DEF Refuse
  <2>2. m \in Messages /\ m.size = -1
      BY DEF Messages
  <2> HIDE DEF m
  <2>3. down \in Seq(Messages) /\ server \in Servers
      BY DEF IInv, DownloadTypes
  <2>4. down' \in Seq(Messages)
        /\ \A i \in DOMAIN down' : (i \in DOMAIN down /\ down'[i] = down[i]) \/ down'[i] = m
      BY <2>1, <2>2, <2>3, Appended
  <2>5. /\ server' \in Servers /\ server'.clientBlock = server.clientBlock
        /\ server'.currentBlock = server.currentBlock /\ server'.count = server.count
        /\ server'.blocks = server.blocks /\ ~server'.named
        /\ server'.xmitBlock = server.xmitBlock
      BY <2>1, <2>3 DEF Servers
  <2>6. RingOK(server, intact)'
    <3>1. server'.xmitBlock <= server'.currentBlock
        BY <2>5, Numbers
    <3>2. RingOK(server', intact)
        BY <2>5, <3>1, RingAlike DEF IInv, DownloadTypes
    <3> QED
      BY <1>1, <2>1, <3>2 DEF RingOK, Bounds, Parts, Joined, Unanswered, Placed, Running, Rec
  <2>7. DownloadTypes'
      BY <1>1, <2>1, <2>4, <2>5 DEF IInv, DownloadTypes
  <2>8. \A i \in DOMAIN down' : Sent(server, down[i])'
      BY <2>2, <2>4, <2>5 DEF IInv, Sent, Rec
  <2>9. ~Asking /\ \A i \in DOMAIN up : up[i].cmd # "download"
      BY <1>1 DEF IInv, Asking, Idle
  <2>10. Answered'
      BY <1>1, <2>5 DEF IInv, Answered
  <2>11. ~Allowed'
      BY <1>1, <1>2 DEF Allowed
  <2>12. (\A i \in DOMAIN up : up[i].cmd # "download")'
      BY <1>1, <2>9
  <2>13. (\A i \in DOMAIN up : up[i].cmd = "stopdl" => client.outcome = "stopped")'
      BY <1>1 DEF IInv
  <2>14. NeverBroken' /\ (intact => disk = FileSize)'
      BY <1>1, <2>1 DEF IInv, NeverBroken
  <2>15. (server.named /\ ~server.open =>
            server.clientBlock = 0 /\ server.currentBlock = 0 /\ server.count = 0)'
      BY <2>5
  <2> QED
    BY <2>6, <2>7, <2>8, <2>10, <2>11, <2>12, <2>13, <2>14, <2>15 DEF IInv
<1>3. ASSUME NEW size \in BlockSizes, server.open \/ Allowed,
             \/ Transmit(Ended(Reads(Opened(server), size, Window))) /\ intact' = intact
             \/ \E n \in 0..Window - 1 :
                    /\ Transmit(Ended(GivenUp(Reads(Opened(server), size, n))))
                    /\ intact' = FALSE
      PROVE  IInv'
  <2> DEFINE o == Opened(server)
  <2>1. server \in Servers /\ RingOK(server, intact) /\ intact \in BOOLEAN
        /\ client.expected \in Nat /\ disk \in 0..FileSize /\ (intact => disk = FileSize)
      BY Numbers DEF IInv, DownloadTypes
  <2>2. /\ o \in Servers /\ o.clientBlock = server.clientBlock
        /\ o.currentBlock = server.currentBlock /\ o.blocks = server.blocks
        /\ o.count = server.count /\ o.open /\ o.named /\ o.xmitBlock <= o.currentBlock
    <3>1. CASE server.open
      <4>1. o = server
          BY <3>1 DEF Opened
      <4> HIDE DEF o
      <4> QED
        BY <1>1, <2>1, <3>1, <4>1, Numbers
    <3>2. CASE ~server.open
      <4>1. server.clientBlock = 0 /\ server.currentBlock = 0 /\ server.count = 0
          BY <1>1, <3>2 DEF IInv
      <4>2. o = [server EXCEPT !.open = TRUE, !.count = 0, !.clientBlock = 0,
                               !.currentBlock = 0, !.xmitBlock = 0, !.eof = FALSE]
          BY <3>2 DEF Opened
      <4>3. 0 \in 0..FileSize
          BY DownloadAssumption
      <4> HIDE DEF o
      <4>4. /\ o \in Servers /\ o.clientBlock = 0 /\ o.currentBlock = 0 /\ o.xmitBlock = 0
            /\ o.blocks = server.blocks /\ o.count = 0 /\ o.open /\ o.named = server.named
          BY <2>1, <4>2, <4>3 DEF Servers
      <4> QED
        BY <1>1, <4>1, <4>4
    <3> QED
      BY <3>1, <3>2
  <2>3. RingOK(o, intact)
      BY <2>1, <2>2, RingAlike
  <2> HIDE DEF o
  <2>4. CASE Transmit(Ended(Reads(o, size, Window))) /\ intact' = intact
    <3> DEFINE r == Reads(o, size, Window)
               s == Ended(r)
    <3>1. RingOK(r, intact) /\ Extends(o, r)
        BY <2>1, <2>2, <2>3, ReadsKeep, DownloadAssumption
    <3>2. r \in Servers
        BY <3>1 DEF Extends
    <3> HIDE DEF r
    <3>3. RingOK(s, intact) /\ Extends(r, s)
        BY <2>1, <3>1, <3>2, EndedKeeps
    <3> HIDE DEF s
    <3>4. Extends(o, s)
        BY <2>2, <3>1, <3>3, ExtendsTransitive
    <3>5. Transmit(s)
        BY <2>4 DEF r, s
    <3> QED
      BY <1>1, <2>1, <2>2, <2>4, <3>3, <3>4, <3>5, Transmitted
  <2>5. ASSUME NEW n \in 0..Window - 1, Transmit(Ended(GivenUp(Reads(o, size, n)))),
               intact' = FALSE
        PROVE  IInv'
    <3> DEFINE r == Reads(o, size, n)
               g == GivenUp(r)
               s == Ended(g)
    <3>1. RingOK(r, intact) /\ Extends(o, r)
      <4>1. n \in Nat
          BY DownloadAssumption
      <4> QED
        BY <2>1, <2>2, <2>3, <4>1, ReadsKeep
    <3>2. r \in Servers
        BY <3>1 DEF Extends
    <3> HIDE DEF r
    <3>3. RingOK(r, FALSE)
        BY <2>1, <3>1, RingDamaged
    <3>4. RingOK(g, FALSE) /\ Extends(r, g)
        BY <3>2, <3>3, GivenUpKeeps
    <3>5. g \in Servers
        BY <3>4 DEF Extends
    <3> HIDE DEF g
    <3>6. RingOK(s, FALSE) /\ Extends(g, s)
        BY <2>1, <3>4, <3>5, EndedKeeps
    <3> HIDE DEF s
    <3>7. Extends(o, s)
      <4>1. Extends(o, g)
          BY <2>2, <3>1, <3>4, ExtendsTransitive
      <4> QED
        BY <2>2, <3>6, <4>1, ExtendsTransitive
    <3>8. Transmit(s)
        BY <2>5 DEF r, g, s
    <3> QED
      BY <1>1, <2>1, <2>2, <2>5, <3>6, <3>7, <3>8, Transmitted
  <2> QED
    BY <1>3, <2>4, <2>5 DEF o
<1> QED
  BY <1>2, <1>3 DEF Snapshot

LEMMA Waited ==
    ASSUME IInv, Wait
    PROVE  IInv'
<1>1. /\ overdue' = TRUE
      /\ UNCHANGED <<permission, server, disk, down, up, client, got, dropped, intact>>
    BY DEF Wait
<1>2. DownloadTypes' /\ NeverBroken'
    BY <1>1 DEF IInv, DownloadTypes, NeverBroken
<1>3. RingOK(server, intact)'
    BY <1>1 DEF IInv, RingOK, Bounds, Parts, Joined, Unanswered, Placed, Running, Rec
<1>4. \A i \in DOMAIN down' : Sent(server, down[i])'
    BY <1>1 DEF IInv, Sent, Rec
<1>5. Answered' /\ (Asking' <=> Asking)
    BY <1>1 DEF IInv, Answered, Asking
<1> QED
  BY <1>1, <1>2, <1>3, <1>4, <1>5 DEF IInv, Allowed, Running


\* The queues grow and shrink, the server and the client stay as they are.
LEMMA Lost ==
    ASSUME IInv, Lose
    PROVE  IInv'
<1>1. /\ down # <<>> /\ down' = Tail(down)
      /\ UNCHANGED <<permission, server, overdue, disk, up, client, got, dropped, intact>>
    BY DEF Lose
<1>2. down \in Seq(Messages)
    BY DEF IInv, DownloadTypes
<1>3. down' \in Seq(Messages)
      /\ \A i \in DOMAIN down' : i + 1 \in DOMAIN down /\ down'[i] = down[i + 1]
    BY <1>1, <1>2, Taken
<1>4. DownloadTypes' /\ NeverBroken'
    BY <1>1, <1>3 DEF IInv, DownloadTypes, NeverBroken
<1>5. RingOK(server, intact)'
    BY <1>1 DEF IInv, RingOK, Bounds, Parts, Joined, Unanswered, Placed, Running, Rec
<1>6. \A i \in DOMAIN down' : Sent(server, down[i])'
    BY <1>1, <1>3 DEF IInv, Sent, Rec
<1>7. Answered' /\ ~Asking
    BY <1>1 DEF IInv, Answered, Asking
<1> QED
  BY <1>1, <1>4, <1>5, <1>6, <1>7 DEF IInv, Allowed, Running

LEMMA Ignored ==
    ASSUME IInv, Ignore
    PROVE  IInv'
<1>1. /\ down # <<>> /\ down' = Tail(down)
      /\ UNCHANGED <<permission, server, overdue, disk, client, got, dropped, intact>>
    BY DEF Ignore
<1> DEFINE c == [cmd |-> "retransdl", block |-> client.expected]
<1>2. up' = up \/ up' = Append(up, c)
    BY DEF Ignore, Send
<1>3. c \in Commands /\ c.cmd = "retransdl"
    BY Numbers DEF Commands
<1> HIDE DEF c
<1>4. down \in Seq(Messages) /\ up \in Seq(Commands)
    BY DEF IInv, DownloadTypes
<1>5. down' \in Seq(Messages)
      /\ \A i \in DOMAIN down' : i + 1 \in DOMAIN down /\ down'[i] = down[i + 1]
    BY <1>1, <1>4, Taken
<1>6. /\ up' \in Seq(Commands)
      /\ \A i \in DOMAIN up : i \in DOMAIN up' /\ up'[i] = up[i]
      /\ \A i \in DOMAIN up' : (i \in DOMAIN up /\ up'[i] = up[i]) \/ up'[i] = c
  <2>1. CASE up' = up
      BY <1>4, <2>1
  <2>2. CASE up' = Append(up, c)
      BY <1>3, <1>4, <2>2, Appended
  <2> QED
    BY <1>2, <2>1, <2>2
<1>7. DownloadTypes' /\ NeverBroken'
    BY <1>1, <1>5, <1>6 DEF IInv, DownloadTypes, NeverBroken
<1>8. RingOK(server, intact)'
    BY <1>1 DEF IInv, RingOK, Bounds, Parts, Joined, Unanswered, Placed, Running, Rec
<1>9. \A i \in DOMAIN down' : Sent(server, down[i])'
    BY <1>1, <1>5 DEF IInv, Sent, Rec
<1>10. Answered'
  <2>1. (\A i \in DOMAIN up : up[i].cmd = "nextdl" =>
            server.clientBlock <= up[i].block /\ up[i].block < client.expected)'
      BY <1>1, <1>3, <1>6 DEF IInv, Answered
  <2>2. (\A i, j \in DOMAIN up :
            i < j /\ up[i].cmd = "nextdl" /\ up[j].cmd = "nextdl" => up[i].block < up[j].block)'
      BY <1>3, <1>6 DEF IInv, Answered
  <2>3. (\A b \in server.clientBlock..client.expected - 1 :
            \/ \E i \in DOMAIN up : up[i].cmd = "nextdl" /\ up[i].block = b
            \/ client.outcome = "done" /\ b = client.expected - 1)'
    <3>1. TAKE b \in server'.clientBlock..client'.expected - 1
    <3> QED
      BY <1>1, <1>6 DEF IInv, Answered
  <2> QED
    BY <2>1, <2>2, <2>3 DEF Answered
<1>11. ~Asking
    BY <1>1 DEF Asking
<1>12. (\A i \in DOMAIN up : up[i].cmd # "download")'
    BY <1>3, <1>6, <1>11 DEF IInv
<1>13. (\A i \in DOMAIN up : up[i].cmd = "stopdl" => client.outcome = "stopped")'
    BY <1>1, <1>3, <1>6 DEF IInv
<1> QED
  BY <1>1, <1>7, <1>8, <1>9, <1>10, <1>11, <1>12, <1>13 DEF IInv, Allowed, Running

LEMMA RefusalRead ==
    ASSUME IInv, Refused
    PROVE  IInv'
<1>1. /\ down # <<>> /\ down' = Tail(down) /\ Running
      /\ client' = [client EXCEPT !.outcome = "failed"]
      /\ UNCHANGED <<permission, server, overdue, disk, up, got, dropped, intact>>
    BY DEF Refused
<1>2. down \in Seq(Messages) /\ client \in Clients
    BY DEF IInv, DownloadTypes
<1>3. down' \in Seq(Messages)
      /\ \A i \in DOMAIN down' : i + 1 \in DOMAIN down /\ down'[i] = down[i + 1]
    BY <1>1, <1>2, Taken
<1>4. client' \in Clients /\ client'.outcome = "failed" /\ client'.expected = client.expected
      /\ client.outcome = "running"
    BY <1>1, <1>2 DEF Clients, Outcomes, Running
<1>5. DownloadTypes' /\ NeverBroken'
    BY <1>1, <1>3, <1>4 DEF IInv, DownloadTypes, NeverBroken
<1>6. RingOK(server, intact)'
    BY <1>1, <1>4 DEF IInv, RingOK, Bounds, Parts, Joined, Unanswered, Placed, Running, Rec
<1>7. \A i \in DOMAIN down' : Sent(server, down[i])'
    BY <1>1, <1>3 DEF IInv, Sent, Rec
<1>8. Answered' /\ ~Asking
    BY <1>1, <1>4 DEF IInv, Answered, Asking
<1>9. (\A i \in DOMAIN up : up[i].cmd = "stopdl" => client.outcome = "stopped")'
    BY <1>1, <1>4 DEF IInv
<1> QED
  BY <1>1, <1>4, <1>5, <1>6, <1>7, <1>8, <1>9 DEF IInv, Allowed, Running

LEMMA Stopped ==
    ASSUME IInv, Stop
    PROVE  IInv'
<1>1. /\ Running /\ client' = [client EXCEPT !.outcome = "stopped"]
      /\ up' = Append(up, Stopping)
      /\ UNCHANGED <<permission, server, overdue, disk, down, got, dropped, intact>>
    BY DEF Stop, Send, Stopping
<1>2. up \in Seq(Commands) /\ client \in Clients
    BY DEF IInv, DownloadTypes
<1>3. Stopping \in Commands /\ Stopping.cmd = "stopdl"
    BY DEF Stopping, Commands
<1>4. /\ up' \in Seq(Commands)
      /\ \A i \in DOMAIN up : i \in DOMAIN up' /\ up'[i] = up[i]
      /\ \A i \in DOMAIN up' : (i \in DOMAIN up /\ up'[i] = up[i]) \/ up'[i] = Stopping
    BY <1>1, <1>2, <1>3, Appended
<1>5. client' \in Clients /\ client'.outcome = "stopped" /\ client'.expected = client.expected
      /\ client.outcome = "running"
    BY <1>1, <1>2 DEF Clients, Outcomes, Running
<1>6. DownloadTypes' /\ NeverBroken'
    BY <1>1, <1>4, <1>5 DEF IInv, DownloadTypes, NeverBroken
<1>7. RingOK(server, intact)'
    BY <1>1, <1>5 DEF IInv, RingOK, Bounds, Parts, Joined, Unanswered, Placed, Running, Rec
<1>8. \A i \in DOMAIN down' : Sent(server, down[i])'
    BY <1>1 DEF IInv, Sent, Rec
<1>9. Answered'
  <2>1. (\A i \in DOMAIN up : up[i].cmd = "nextdl" =>
            server.clientBlock <= up[i].block /\ up[i].block < client.expected)'
      BY <1>1, <1>3, <1>4, <1>5 DEF IInv, Answered
  <2>2. (\A i, j \in DOMAIN up :
            i < j /\ up[i].cmd = "nextdl" /\ up[j].cmd = "nextdl" => up[i].block < up[j].block)'
      BY <1>3, <1>4 DEF IInv, Answered
  <2>3. (\A b \in server.clientBlock..client.expected - 1 :
            \/ \E i \in DOMAIN up : up[i].cmd = "nextdl" /\ up[i].block = b
            \/ client.outcome = "done" /\ b = client.expected - 1)'
    <3>1. TAKE b \in server'.clientBlock..client'.expected - 1
    <3> QED
      BY <1>1, <1>4, <1>5 DEF IInv, Answered
  <2> QED
    BY <2>1, <2>2, <2>3 DEF Answered
<1>10. CASE Asking
  <2>1. up = <<Asked>>
      BY <1>5, <1>10 DEF Asking
  <2>2. up' = <<Asked, Stopping>>
    <3>1. Asked \in Commands /\ Stopping \in Commands
        BY DEF Asked, Stopping, Commands
    <3> QED
      BY <1>1, <2>1, <3>1, AppendedToOne
  <2>3. Asking'
      BY <1>1, <1>5, <1>10, <2>2 DEF Asking, Asked, Stopping, Idle
  <2> QED
    BY <1>1, <1>5, <1>6, <1>7, <1>8, <1>9, <2>3 DEF IInv, Running
<1>11. CASE ~Asking
  <2>1. (\A i \in DOMAIN up : up[i].cmd # "download")'
      BY <1>3, <1>4, <1>11 DEF IInv
  <2> QED
    BY <1>1, <1>5, <1>6, <1>7, <1>8, <1>9, <2>1 DEF IInv, Running
<1> QED
  BY <1>10, <1>11

LEMMA Shortened ==
    ASSUME IInv, Shorten
    PROVE  IInv'
<1>1. /\ disk' \in 0..disk - 1 /\ intact' = FALSE
      /\ UNCHANGED <<permission, server, overdue, down, up, client, got, dropped>>
    BY DEF Shorten
<1>2. DownloadTypes' /\ NeverBroken'
  <2>1. disk' \in 0..FileSize
      BY <1>1, DownloadAssumption DEF IInv, DownloadTypes
  <2> QED
    BY <1>1, <2>1 DEF IInv, DownloadTypes, NeverBroken
<1>3. RingOK(server, intact)'
  <2>1. RingOK(server, FALSE)
      BY RingDamaged DEF IInv, DownloadTypes
  <2> QED
    BY <1>1, <2>1 DEF RingOK, Bounds, Parts, Joined, Unanswered, Placed, Running, Rec
<1>4. \A i \in DOMAIN down' : Sent(server, down[i])'
    BY <1>1 DEF IInv, Sent, Rec
<1>5. Answered' /\ (Asking' <=> Asking)
    BY <1>1 DEF IInv, Answered, Asking
<1> QED
  BY <1>1, <1>2, <1>3, <1>4, <1>5 DEF IInv, Allowed, Running

\* The message the client waits for is the block it waits for, as it stands in the ring.
LEMMA BlockArrives ==
    ASSUME IInv, Accept
    PROVE  /\ client.expected < server.currentBlock
           /\ Head(down).from = Rec(server, client.expected).from
           /\ Head(down).size = Rec(server, client.expected).size
<1> DEFINE e == client.expected
           m == Head(down)
<1>1. down # <<>> /\ m.block = e /\ m.size >= 0
    BY DEF Accept
<1>2. down \in Seq(Messages)
    BY DEF IInv, DownloadTypes
<1>3. Sent(server, m)
  <2>1. 1 \in DOMAIN down /\ m = down[1]
      BY <1>1, <1>2, Taken
  <2> QED
    BY <2>1 DEF IInv
<1> HIDE DEF m, e
<1>4. m.size # -1
    BY <1>1
<1>5. PICK b \in 0..server.currentBlock - 1 :
            /\ m.block = ToShort(b) /\ m.size \in Nat
            /\ b >= server.clientBlock =>
                m.from = Rec(server, b).from /\ m.size = Rec(server, b).size
    BY <1>3, <1>4 DEF Sent
<1>6. e \in Nat /\ server.clientBlock <= e /\ server.currentBlock <= server.clientBlock + Window
      /\ server.clientBlock \in Nat /\ server.currentBlock \in Nat /\ Window \in Nat
    BY Numbers DEF e
<1>7. b \in Nat /\ b < e + Window /\ ToShort(b) = e
    BY <1>1, <1>5, <1>6
<1>8. b = e
    BY <1>6, <1>7, ShortTellsBlock
<1> QED
  BY <1>5, <1>6, <1>8 DEF e, m

\* What the client writes when it accepts a block.
LEMMA UnitsArrive ==
    ASSUME IInv, Accept
    PROVE  LET from == Head(down).from
               size == Head(down).size
           IN /\ from \in Nat /\ size \in Nat /\ from + size <= FileSize
              /\ intact /\ size = 0 => from = FileSize
              /\ intact \/ size # 0 => from = Len(got)
              /\ got' = got \o Units(from, size)
              /\ got' \in Seq(1..FileSize) /\ Len(got') = Len(got) + size
<1> DEFINE e == client.expected
           from == Head(down).from
           size == Head(down).size
<1>1. Running /\ got' = got \o Units(from, size)
    BY DEF Accept
<1>2. e \in Nat /\ server.clientBlock <= e /\ e < server.currentBlock
      /\ server.clientBlock \in Nat /\ server.currentBlock \in Nat
      /\ from = Rec(server, e).from /\ size = Rec(server, e).size
    BY Numbers, BlockArrives
<1>3. from \in 0..FileSize /\ size \in 0..FileSize
    BY <1>2, RecType DEF IInv, DownloadTypes
<1>4. e \in server.clientBlock..server.currentBlock - 1
    BY <1>2
<1>5. from + size <= FileSize /\ (intact /\ size = 0 => from = FileSize)
    BY <1>2, <1>4 DEF IInv, RingOK, Parts
<1>6. intact \/ size # 0 => from = Len(got)
    BY <1>1, <1>2 DEF IInv, RingOK, Placed
<1> HIDE DEF from, size, e
<1>7. FileSize \in Nat /\ got \in Seq(1..FileSize)
    BY DownloadAssumption DEF IInv, DownloadTypes
<1>8. Units(from, size) \in Seq(1..FileSize) /\ Len(Units(from, size)) = size
  <2>1. \A i \in 1..size : from + i \in 1..FileSize
      BY <1>3, <1>5, <1>7
  <2> QED
    BY <1>3, <2>1 DEF Units
<1>9. got' \in Seq(1..FileSize) /\ Len(got') = Len(got) + size
  <2> DEFINE u == Units(from, size)
  <2>1. u \in Seq(1..FileSize) /\ Len(u) = size /\ got' = got \o u
      BY <1>1, <1>8
  <2> HIDE DEF u
  <2> QED
    BY <1>7, <2>1, ConcatProperties
<1>10. from \in Nat /\ size \in Nat
    BY <1>3, <1>7
<1> QED
  BY <1>1, <1>5, <1>6, <1>9, <1>10 DEF from, size

LEMMA Accepted ==
    ASSUME IInv, Accept
    PROVE  IInv'
<1> DEFINE e == client.expected
           from == Head(down).from
           size == Head(down).size
           c == [cmd |-> "nextdl", block |-> e]
           o == IF size = 0 THEN "done" ELSE "running"
<1>1. /\ down # <<>> /\ Running /\ down' = Tail(down) /\ up' = Append(up, c)
      /\ client' = [expected |-> e + 1, outcome |-> o]
      /\ UNCHANGED <<permission, server, overdue, disk, dropped, intact>>
    BY DEF Accept, Send
<1>2. /\ e \in Nat /\ server.clientBlock <= e /\ e < server.currentBlock
      /\ server.clientBlock \in Nat /\ server.currentBlock \in Nat /\ Window \in Nat
      /\ from = Rec(server, e).from /\ size = Rec(server, e).size
    BY Numbers, BlockArrives
<1>3. /\ from \in Nat /\ size \in Nat
      /\ intact \/ size # 0 => from = Len(got)
      /\ got' \in Seq(1..FileSize) /\ Len(got') = Len(got) + size
    BY UnitsArrive
<1>4. down \in Seq(Messages) /\ up \in Seq(Commands) /\ Len(got) \in Nat
    BY DEF IInv, DownloadTypes
<1>5. down' \in Seq(Messages)
      /\ \A i \in DOMAIN down' : i + 1 \in DOMAIN down /\ down'[i] = down[i + 1]
    BY <1>1, <1>4, Taken
<1>6. c \in Commands /\ c.cmd = "nextdl" /\ c.block = e
    BY <1>2 DEF Commands
<1> HIDE DEF c
<1>7. /\ up' \in Seq(Commands) /\ DOMAIN up = 1..Len(up) /\ Len(up) \in Nat
      /\ DOMAIN up' = 1..(Len(up) + 1) /\ up'[Len(up) + 1] = c
      /\ \A i \in DOMAIN up : i \in DOMAIN up' /\ up'[i] = up[i]
      /\ \A i \in DOMAIN up' : (i \in DOMAIN up /\ up'[i] = up[i]) \/ (i = Len(up) + 1)
    BY <1>1, <1>4, <1>6, Appended
<1>8. o \in Outcomes /\ o # "stopped" /\ (o = "done" <=> size = 0) /\ (o = "running" <=> size # 0)
    BY DEF Outcomes
<1> HIDE DEF o, e, from, size
<1>9. client' \in Clients /\ client'.expected = e + 1 /\ client'.outcome = o
      /\ client.expected = e /\ client.outcome = "running"
  <2>1. e + 1 \in Nat
      BY <1>2
  <2> QED
    BY <1>1, <1>8, <2>1 DEF Clients, Running, e
<1>10. DownloadTypes' /\ NeverBroken'
    BY <1>1, <1>3, <1>5, <1>7, <1>9 DEF IInv, DownloadTypes, NeverBroken
<1>11. \A b : Rec(server, b)' = Rec(server, b)
    BY <1>1 DEF Rec
<1>12. RingOK(server, intact)'
  <2>1. Bounds(server)'
      BY <1>1, <1>2, <1>9 DEF IInv, RingOK, Bounds
  <2>2. Parts(server, intact)'
      BY <1>1 DEF IInv, RingOK, Parts, Rec
  <2>3. Joined(server, intact)'
      BY <1>1 DEF IInv, RingOK, Joined, Rec
  <2>4. Unanswered(server)'
    <3>1. ASSUME NEW b \in server.clientBlock..(e + 1) - 1
          PROVE  Rec(server, b).size = 0 <=> (o = "done" /\ b = (e + 1) - 1)
      <4>1. CASE b = e
          BY <1>2, <1>8, <4>1
      <4>2. CASE b # e
        <5>1. b \in server.clientBlock..e - 1 /\ b # (e + 1) - 1
            BY <1>2, <4>2
        <5>2. Rec(server, b).size # 0
            BY <1>9, <5>1 DEF IInv, RingOK, Unanswered
        <5> QED
          BY <5>1, <5>2
      <4> QED
        BY <4>1, <4>2
    <3> QED
      BY <1>1, <1>9, <3>1 DEF Unanswered, Rec
  <2>5. Placed(server, intact)'
    <3>1. SUFFICES ASSUME o = "running"
                   PROVE  /\ e + 1 < server.currentBlock
                             /\ (intact \/ Rec(server, e + 1).size # 0) =>
                                Rec(server, e + 1).from = Len(got')
                          /\ e + 1 = server.currentBlock
                             /\ (intact \/ server.count # FileSize) =>
                                server.count = Len(got')
        BY <1>1, <1>9 DEF Placed, Running, Rec
    <3>2. from + size = Len(got')
        BY <1>3, <1>4, <1>8, <3>1
    <3>3. ASSUME e + 1 < server.currentBlock, intact \/ Rec(server, e + 1).size # 0
          PROVE  Rec(server, e + 1).from = Len(got')
      <4>1. e \in server.clientBlock..server.currentBlock - 2
          BY <1>2, <3>3
      <4>2. Rec(server, e).from + Rec(server, e).size = Rec(server, e + 1).from
          BY <3>3, <4>1 DEF IInv, RingOK, Joined
      <4> QED
        BY <1>2, <3>2, <4>2
    <3>4. ASSUME e + 1 = server.currentBlock, intact \/ server.count # FileSize
          PROVE  server.count = Len(got')
      <4>1. server.clientBlock < server.currentBlock /\ server.currentBlock - 1 = e
          BY <1>2, <3>4
      <4>2. Rec(server, e).from + Rec(server, e).size = server.count
          BY <3>4, <4>1 DEF IInv, RingOK, Joined
      <4> QED
        BY <1>2, <3>2, <4>2
    <3> QED
      BY <3>3, <3>4
  <2> QED
    BY <2>1, <2>2, <2>3, <2>4, <2>5 DEF RingOK
<1>13. \A i \in DOMAIN down' : Sent(server, down[i])'
    BY <1>1, <1>5 DEF IInv, Sent, Rec
<1>14. Answered'
  <2>1. (\A i \in DOMAIN up : up[i].cmd = "nextdl" =>
            server.clientBlock <= up[i].block /\ up[i].block < client.expected)'
    <3>1. TAKE i \in DOMAIN up'
    <3>2. CASE i \in DOMAIN up /\ up'[i] = up[i]
      <4>1. up[i] \in Commands
          BY <1>4, <3>2
      <4>2. up[i].block \in Nat
          BY <4>1 DEF Commands
      <4> QED
        BY <1>1, <1>2, <1>9, <3>2, <4>2 DEF IInv, Answered
    <3>3. CASE i = Len(up) + 1
        BY <1>1, <1>2, <1>6, <1>7, <1>9, <3>3
    <3> QED
      BY <1>7, <3>2, <3>3
  <2>2. (\A i, j \in DOMAIN up :
            i < j /\ up[i].cmd = "nextdl" /\ up[j].cmd = "nextdl" => up[i].block < up[j].block)'
    <3>1. TAKE i, j \in DOMAIN up'
    <3>2. SUFFICES ASSUME i < j, up'[i].cmd = "nextdl", up'[j].cmd = "nextdl"
                   PROVE  up'[i].block < up'[j].block
        OBVIOUS
    <3>3. i \in DOMAIN up /\ up'[i] = up[i]
        BY <1>7, <3>2
    <3>4. CASE j \in DOMAIN up /\ up'[j] = up[j]
        BY <3>2, <3>3, <3>4 DEF IInv, Answered
    <3>5. CASE j = Len(up) + 1
        BY <1>6, <1>7, <1>9, <3>2, <3>3, <3>5 DEF IInv, Answered
    <3> QED
      BY <1>7, <3>4, <3>5
  <2>3. (\A b \in server.clientBlock..client.expected - 1 :
            \/ \E i \in DOMAIN up : up[i].cmd = "nextdl" /\ up[i].block = b
            \/ client.outcome = "done" /\ b = client.expected - 1)'
    <3>1. TAKE b \in server'.clientBlock..client'.expected - 1
    <3>2. CASE b = e
      <4>1. Len(up) + 1 \in DOMAIN up'
          BY <1>7
      <4> QED
        BY <1>6, <1>7, <3>2, <4>1
    <3>3. CASE b # e
      <4>1. b \in server.clientBlock..client.expected - 1
          BY <1>1, <1>2, <1>9, <3>3
      <4>2. PICK i \in DOMAIN up : up[i].cmd = "nextdl" /\ up[i].block = b
          BY <1>9, <4>1 DEF IInv, Answered
      <4> QED
        BY <1>7, <4>2
    <3> QED
      BY <3>2, <3>3
  <2> QED
    BY <2>1, <2>2, <2>3 DEF Answered
<1>15. ~Asking
    BY <1>1 DEF Asking
<1>16. (\A i \in DOMAIN up : up[i].cmd # "download")'
    BY <1>6, <1>7, <1>15 DEF IInv
<1>17. (\A i \in DOMAIN up : up[i].cmd = "stopdl" => client.outcome = "stopped")'
    BY <1>6, <1>7, <1>9 DEF IInv
<1>18. Allowed => server.named
    BY <1>1, <1>15 DEF IInv
<1>19. (~Asking /\ Allowed /\ ~server.named => ~Running)'
    BY <1>1, <1>18 DEF Allowed
<1>20. (intact => disk = FileSize)' /\ (server.named /\ ~server.open =>
            server.clientBlock = 0 /\ server.currentBlock = 0 /\ server.count = 0)'
    BY <1>1 DEF IInv
<1> QED
  BY <1>10, <1>12, <1>13, <1>14, <1>16, <1>17, <1>19, <1>20 DEF IInv

\* A step of the server that leaves the ring and the client alone.
LEMMA RingLeftAlone ==
    ASSUME IInv, server'.blocks = server.blocks, server'.count = server.count,
           server'.currentBlock = server.currentBlock,
           server'.clientBlock = server.clientBlock,
           server'.xmitBlock <= server'.currentBlock,
           UNCHANGED <<down, client, got, intact>>
    PROVE  /\ RingOK(server, intact)'
           /\ \A i \in DOMAIN down' : Sent(server, down[i])'
<1>1. RingOK(server', intact)
    BY RingAlike DEF IInv, DownloadTypes
<1>2. RingOK(server, intact)'
    BY <1>1 DEF RingOK, Bounds, Parts, Joined, Unanswered, Placed, Running, Rec
<1>3. \A i \in DOMAIN down' : Sent(server, down[i])'
    BY DEF IInv, Sent, Rec
<1> QED
  BY <1>2, <1>3

\* A command that is no answer is read.
LEMMA AnswersLeftAlone ==
    ASSUME IInv, up # <<>>, up' = Tail(up), Head(up).cmd # "nextdl",
           server'.clientBlock = server.clientBlock, client' = client
    PROVE  Answered'
<1>1. up \in Seq(Commands)
    BY DEF IInv, DownloadTypes
<1>2. /\ DOMAIN up = 1..Len(up) /\ Len(up) \in Nat \ {0} /\ up[1].cmd # "nextdl"
      /\ DOMAIN up' = 1..(Len(up) - 1)
      /\ \A i \in DOMAIN up' : i \in Nat /\ i + 1 \in DOMAIN up /\ up'[i] = up[i + 1]
    BY <1>1, Taken
<1>3. (\A i \in DOMAIN up : up[i].cmd = "nextdl" =>
        server.clientBlock <= up[i].block /\ up[i].block < client.expected)'
    BY <1>2 DEF IInv, Answered
<1>4. (\A i, j \in DOMAIN up :
        i < j /\ up[i].cmd = "nextdl" /\ up[j].cmd = "nextdl" => up[i].block < up[j].block)'
  <2>1. TAKE i, j \in DOMAIN up'
  <2>2. /\ i + 1 \in DOMAIN up /\ j + 1 \in DOMAIN up /\ up'[i] = up[i + 1]
        /\ up'[j] = up[j + 1] /\ (i < j => i + 1 < j + 1)
      BY <1>2
  <2> QED
    BY <2>2 DEF IInv, Answered
<1>5. (\A b \in server.clientBlock..client.expected - 1 :
        \/ \E i \in DOMAIN up : up[i].cmd = "nextdl" /\ up[i].block = b
        \/ client.outcome = "done" /\ b = client.expected - 1)'
  <2>1. TAKE b \in server'.clientBlock..client'.expected - 1
  <2>2. ASSUME NEW i \in DOMAIN up, up[i].cmd = "nextdl", up[i].block = b
        PROVE  \E j \in DOMAIN up' : up'[j].cmd = "nextdl" /\ up'[j].block = b
    <3>1. i # 1 /\ i \in 1..Len(up)
        BY <1>2, <2>2
    <3>2. i - 1 \in DOMAIN up' /\ (i - 1) + 1 = i
        BY <1>2, <3>1
    <3>3. up'[i - 1] = up[i]
        BY <1>2, <3>2
    <3> QED
      BY <2>2, <3>2, <3>3
  <2> QED
    BY <2>2 DEF IInv, Answered
<1> QED
  BY <1>3, <1>4, <1>5 DEF Answered

\* The first answer under way is the one the server waits for; it is to the empty block that
\* ends the file if, and only if, the client has the whole download.
LEMMA FirstAnswer ==
    ASSUME IInv, up # <<>>, Head(up).cmd = "nextdl"
    PROVE  /\ Head(up).block = server.clientBlock /\ server.clientBlock < client.expected
           /\ EndsFile(Head(up).block) <=>
                (client.outcome = "done" /\ server.clientBlock = client.expected - 1)
<1> DEFINE b == Head(up).block
           c == server.clientBlock
           e == client.expected
<1>1. up \in Seq(Commands) /\ c \in Nat /\ e \in Nat
    BY Numbers DEF IInv, DownloadTypes
<1>2. /\ DOMAIN up = 1..Len(up) /\ Len(up) \in Nat \ {0} /\ 1 \in DOMAIN up
      /\ Head(up) = up[1] /\ Head(up) \in Commands
    BY <1>1, Taken
<1>3. b \in Nat
    BY <1>2 DEF Commands
<1>4. c <= b /\ b < e
    BY <1>2 DEF IInv, Answered
<1> HIDE DEF b, c, e
<1>5. ASSUME c # b PROVE FALSE
  <2>1. c \in server.clientBlock..client.expected - 1 /\ c # e - 1
      BY <1>1, <1>3, <1>4, <1>5 DEF c, e
  <2>2. PICK i \in DOMAIN up : up[i].cmd = "nextdl" /\ up[i].block = c
      BY <2>1 DEF IInv, Answered, e
  <2>3. i # 1
      BY <1>2, <1>5, <2>2 DEF b
  <2>4. 1 < i
      BY <1>2, <2>3
  <2>5. up[1].block < up[i].block
      BY <1>2, <2>2, <2>4 DEF IInv, Answered
  <2> QED
    BY <1>1, <1>2, <1>3, <1>4, <2>2, <2>5 DEF b
<1>6. c \in server.clientBlock..client.expected - 1
    BY <1>1, <1>4, <1>5 DEF c, e
<1>7. Rec(server, c).size = 0 <=> (client.outcome = "done" /\ c = client.expected - 1)
    BY <1>6 DEF IInv, RingOK, Unanswered
<1>8. EndsFile(b) <=> Rec(server, b).size = 0
    BY DEF EndsFile, Rec
<1> QED
  BY <1>4, <1>5, <1>7, <1>8 DEF b, c, e

LEMMA AnswerRead ==
    ASSUME IInv, up # <<>>, up' = Tail(up), Head(up).cmd = "nextdl",
           NextDownload(Head(up).block),
           UNCHANGED <<permission, disk, down, client, got, intact>>
    PROVE  IInv'
<1> DEFINE c == server.clientBlock
           e == client.expected
<1>1. up \in Seq(Commands) /\ server \in Servers
    BY DEF IInv, DownloadTypes
<1>2. /\ DOMAIN up = 1..Len(up) /\ Len(up) \in Nat \ {0} /\ Head(up) = up[1] /\ 1 \in DOMAIN up
      /\ up' \in Seq(Commands) /\ DOMAIN up' = 1..(Len(up) - 1)
      /\ \A i \in DOMAIN up' : i \in Nat /\ i + 1 \in DOMAIN up /\ up'[i] = up[i + 1]
    BY <1>1, Taken
<1>3. /\ Head(up).block = c /\ c < e /\ c \in Nat /\ e \in Nat
      /\ EndsFile(Head(up).block) <=> (client.outcome = "done" /\ c = e - 1)
    BY FirstAnswer, Numbers
<1>4. dropped' = FALSE /\ dropped = FALSE
    BY <1>3 DEF NextDownload, Answers, IInv, NeverBroken, DownloadTypes
<1>5. \/ /\ ~EndsFile(Head(up).block) /\ overdue' = FALSE
         /\ server' = [server EXCEPT !.clientBlock = c + 1]
      \/ /\ EndsFile(Head(up).block) /\ server' = Closed /\ overdue' = overdue
    BY <1>3 DEF NextDownload, Answers
<1>6. ~Asking
    BY <1>3 DEF Asking, Asked, Idle
<1>7. (\A i \in DOMAIN up : up[i].cmd # "download")'
    BY <1>2, <1>6 DEF IInv
<1>8. (\A i \in DOMAIN up : up[i].cmd = "stopdl" => client.outcome = "stopped")'
    BY <1>2 DEF IInv
<1>9. ASSUME NEW i \in DOMAIN up', up'[i].cmd = "nextdl"
      PROVE  c < up'[i].block /\ up'[i].block < e /\ up'[i].block \in Nat
  <2>1. i \in Nat /\ i + 1 \in DOMAIN up /\ up'[i] = up[i + 1] /\ 1 < i + 1
      BY <1>2
  <2>2. up[1].block < up[i + 1].block /\ up[i + 1].block < e
      BY <1>2, <1>9, <2>1 DEF IInv, Answered
  <2>3. up[i + 1] \in Commands
      BY <1>1, <2>1
  <2>4. up[i + 1].block \in Nat
      BY <2>3 DEF Commands
  <2> QED
    BY <1>2, <1>3, <2>1, <2>2, <2>4
<1>10. (\A i, j \in DOMAIN up :
        i < j /\ up[i].cmd = "nextdl" /\ up[j].cmd = "nextdl" => up[i].block < up[j].block)'
  <2>1. TAKE i, j \in DOMAIN up'
  <2>2. /\ i + 1 \in DOMAIN up /\ j + 1 \in DOMAIN up /\ up'[i] = up[i + 1]
        /\ up'[j] = up[j + 1] /\ (i < j => i + 1 < j + 1)
      BY <1>2
  <2> QED
    BY <2>2 DEF IInv, Answered
<1>11. CASE ~EndsFile(Head(up).block)
  <2>1. server' = [server EXCEPT !.clientBlock = c + 1] /\ overdue' = FALSE
      BY <1>5, <1>11
  <2>2. /\ server' \in Servers /\ server'.clientBlock = c + 1
        /\ server'.blocks = server.blocks /\ server'.count = server.count
        /\ server'.currentBlock = server.currentBlock /\ server'.xmitBlock = server.xmitBlock
        /\ server'.named = server.named /\ server'.open = server.open
    <3>1. c + 1 \in Nat
        BY <1>3
    <3> HIDE DEF c
    <3> QED
      BY <1>1, <2>1, <3>1 DEF Servers
  <2>3. /\ c \in Nat /\ e \in Nat /\ server.currentBlock \in Nat /\ Window \in Nat
        /\ e <= server.currentBlock /\ server.currentBlock <= c + Window
        /\ server.xmitBlock <= server.currentBlock
      BY Numbers
  <2>4. \A b : Rec(server, b)' = Rec(server, b)
      BY <2>2 DEF Rec
  <2>5. RingOK(server, intact)'
    <3>1. Bounds(server)'
        BY <1>3, <2>2, <2>3 DEF Bounds
    <3>2. Parts(server, intact)'
      <4>1. \A b \in c + 1..server.currentBlock - 1 : b \in server.clientBlock..server.currentBlock - 1
          BY <2>3
      <4> QED
        BY <2>2, <4>1 DEF IInv, RingOK, Parts, Rec
    <3>3. Joined(server, intact)'
      <4>1. \A b \in c + 1..server.currentBlock - 2 : b \in server.clientBlock..server.currentBlock - 2
          BY <2>3
      <4>2. server.clientBlock < server.currentBlock
          BY <1>3, <2>3
      <4> QED
        BY <2>2, <4>1, <4>2 DEF IInv, RingOK, Joined, Rec
    <3>4. Unanswered(server)'
      <4>1. \A b \in c + 1..e - 1 : b \in server.clientBlock..e - 1
          BY <2>3
      <4> QED
        BY <2>2, <4>1 DEF IInv, RingOK, Unanswered, Rec
    <3>5. Placed(server, intact)'
        BY <2>2 DEF IInv, RingOK, Placed, Rec, Running
    <3> QED
      BY <3>1, <3>2, <3>3, <3>4, <3>5 DEF RingOK
  <2>6. \A i \in DOMAIN down' : Sent(server, down[i])'
    <3>1. TAKE i \in DOMAIN down'
    <3>2. CASE down[i].size = -1
        BY <3>2 DEF Sent
    <3>3. CASE down[i].size # -1
      <4>1. PICK b \in 0..server.currentBlock - 1 :
                /\ down[i].block = ToShort(b) /\ down[i].size \in Nat
                /\ b >= server.clientBlock =>
                    down[i].from = Rec(server, b).from /\ down[i].size = Rec(server, b).size
          BY <3>3 DEF IInv, Sent
      <4>2. b >= c + 1 => b >= server.clientBlock
          BY <2>3
      <4>3. b \in 0..server'.currentBlock - 1
          BY <2>2
      <4> QED
        BY <2>2, <2>4, <4>1, <4>2, <4>3 DEF Sent
    <3> QED
      BY <3>2, <3>3
  <2>7. Answered'
    <3>1. (\A i \in DOMAIN up : up[i].cmd = "nextdl" =>
            server.clientBlock <= up[i].block /\ up[i].block < client.expected)'
        BY <1>3, <1>9, <2>2
    <3>2. (\A b \in server.clientBlock..client.expected - 1 :
            \/ \E i \in DOMAIN up : up[i].cmd = "nextdl" /\ up[i].block = b
            \/ client.outcome = "done" /\ b = client.expected - 1)'
      <4>1. TAKE b \in server'.clientBlock..client'.expected - 1
      <4>2. b \in server.clientBlock..client.expected - 1 /\ b # c
          BY <2>2, <2>3
      <4>3. ASSUME NEW i \in DOMAIN up, up[i].cmd = "nextdl", up[i].block = b
            PROVE  \E j \in DOMAIN up' : up'[j].cmd = "nextdl" /\ up'[j].block = b
        <5>1. i # 1 /\ i \in 1..Len(up)
            BY <1>2, <1>3, <4>2, <4>3
        <5>2. i - 1 \in DOMAIN up' /\ (i - 1) + 1 = i
            BY <1>2, <5>1
        <5>3. up'[i - 1] = up[i]
            BY <1>2, <5>2
        <5> QED
          BY <4>3, <5>2, <5>3
      <4> QED
        BY <4>2, <4>3 DEF IInv, Answered
    <3> QED
      BY <1>10, <3>1, <3>2 DEF Answered
  <2>8. DownloadTypes' /\ NeverBroken'
      BY <1>2, <1>4, <2>1, <2>2 DEF IInv, DownloadTypes, NeverBroken
  <2>9. (server.named /\ ~server.open =>
            server.clientBlock = 0 /\ server.currentBlock = 0 /\ server.count = 0)'
    <3>1. server.currentBlock # 0
        BY <1>3, <2>3
    <3> QED
      BY <2>2, <3>1 DEF IInv
  <2>10. (~Asking /\ Allowed /\ ~server.named => ~Running)'
      BY <1>6, <2>2 DEF IInv, Allowed, Running
  <2>11. (intact => disk = FileSize)'
      BY DEF IInv
  <2> QED
    BY <1>7, <1>8, <2>5, <2>6, <2>7, <2>8, <2>9, <2>10, <2>11 DEF IInv
<1>12. CASE EndsFile(Head(up).block)
  <2>1. server' = [server EXCEPT !.named = FALSE, !.open = FALSE] /\ overdue' = overdue
      BY <1>5, <1>12 DEF Closed
  <2>2. /\ server' \in Servers /\ server'.clientBlock = server.clientBlock
        /\ server'.blocks = server.blocks /\ server'.count = server.count
        /\ server'.currentBlock = server.currentBlock /\ server'.xmitBlock = server.xmitBlock
        /\ ~server'.named
      BY <1>1, <2>1 DEF Servers
  <2>3. server'.xmitBlock <= server'.currentBlock
      BY <2>2, Numbers
  <2>4. RingOK(server, intact)' /\ \A i \in DOMAIN down' : Sent(server, down[i])'
      BY <2>2, <2>3, RingLeftAlone
  <2>5. client.outcome = "done" /\ c = e - 1
      BY <1>3, <1>12
  <2>6. Answered'
    <3>1. (\A i \in DOMAIN up : up[i].cmd = "nextdl" =>
            server.clientBlock <= up[i].block /\ up[i].block < client.expected)'
        BY <1>3, <1>9, <2>2
    <3>2. (\A b \in server.clientBlock..client.expected - 1 :
            \/ \E i \in DOMAIN up : up[i].cmd = "nextdl" /\ up[i].block = b
            \/ client.outcome = "done" /\ b = client.expected - 1)'
        BY <1>3, <2>2, <2>5
    <3> QED
      BY <1>10, <3>1, <3>2 DEF Answered
  <2>7. DownloadTypes' /\ NeverBroken'
      BY <1>2, <1>4, <2>1, <2>2 DEF IInv, DownloadTypes, NeverBroken
  <2>8. ~Running'
      BY <2>5 DEF Running
  <2>9. (intact => disk = FileSize)'
      BY DEF IInv
  <2> QED
    BY <1>7, <1>8, <2>2, <2>4, <2>6, <2>7, <2>8, <2>9 DEF IInv
<1> QED
  BY <1>11, <1>12

LEMMA CommandRead ==
    ASSUME IInv, ExecuteClientCommand
    PROVE  IInv'
<1>1. /\ up # <<>> /\ up' = Tail(up)
      /\ UNCHANGED <<permission, disk, down, client, got, intact>>
    BY DEF ExecuteClientCommand
<1>2. up \in Seq(Commands) /\ server \in Servers /\ down \in Seq(Messages)
    BY DEF IInv, DownloadTypes
<1>3. /\ Head(up) = up[1] /\ 1 \in DOMAIN up /\ up' \in Seq(Commands)
      /\ \A i \in DOMAIN up' : i \in Nat /\ i + 1 \in DOMAIN up /\ up'[i] = up[i + 1]
    BY <1>1, <1>2, Taken
<1>4. (\A i \in DOMAIN up : up[i].cmd = "stopdl" => client.outcome = "stopped")'
    BY <1>1, <1>3 DEF IInv
<1>5. (intact => disk = FileSize)'
    BY <1>1 DEF IInv
<1>6. CASE Head(up).cmd = "download" /\ BeginDownload
  <2>1. Asking
      BY <1>3, <1>6 DEF IInv
  <2>2. /\ overdue' = overdue /\ dropped' = dropped
        /\ server' = IF permission = "ignored" THEN server
                     ELSE [server EXCEPT !.named = TRUE, !.open = FALSE]
      BY <1>2, <1>6 DEF BeginDownload, shouldServeFile, Closed, Servers
  <2>3. /\ server' \in Servers /\ server'.clientBlock = server.clientBlock
        /\ server'.blocks = server.blocks /\ server'.count = server.count
        /\ server'.currentBlock = server.currentBlock /\ server'.xmitBlock = server.xmitBlock
        /\ (permission # "ignored" => server'.named)
    <3>1. CASE permission = "ignored"
        BY <1>2, <2>2, <3>1
    <3>2. CASE permission # "ignored"
      <4>1. server' = [server EXCEPT !.named = TRUE, !.open = FALSE]
          BY <2>2, <3>2
      <4> QED
        BY <1>2, <4>1 DEF Servers
    <3> QED
      BY <3>1, <3>2
  <2>4. server'.xmitBlock <= server'.currentBlock
      BY <2>3, Numbers
  <2>5. RingOK(server, intact)' /\ \A i \in DOMAIN down' : Sent(server, down[i])'
      BY <1>1, <2>3, <2>4, RingLeftAlone
  <2>6. Answered'
      BY <1>1, <1>6, <2>3, AnswersLeftAlone
  <2>7. DownloadTypes' /\ NeverBroken'
      BY <1>1, <1>3, <2>2, <2>3 DEF IInv, DownloadTypes, NeverBroken
  <2>8. (\A i \in DOMAIN up : up[i].cmd # "download")'
    <3>1. CASE up = <<Asked>>
      <4>1. up' = <<>>
          BY <1>1, <3>1
      <4> QED
        BY <4>1
    <3>2. CASE up = <<Asked, Stopping>>
      <4>1. up' = <<Stopping>>
          BY <1>1, <3>2
      <4> QED
        BY <4>1 DEF Stopping
    <3> QED
      BY <2>1, <3>1, <3>2 DEF Asking
  <2>9. server.clientBlock = 0 /\ server.currentBlock = 0 /\ server.count = 0
      BY <2>1 DEF Asking, Idle
  <2>10. (Allowed => server.named)'
      BY <1>1, <2>3 DEF Allowed
  <2> QED
    BY <1>4, <1>5, <2>3, <2>5, <2>6, <2>7, <2>8, <2>9, <2>10 DEF IInv
<1>7. CASE Head(up).cmd = "nextdl" /\ NextDownload(Head(up).block)
    BY <1>1, <1>7, AnswerRead
<1>8. CASE Head(up).cmd = "retransdl" /\ RetransmitDownload(Head(up).block)
  <2> DEFINE c == server.clientBlock
  <2>1. /\ overdue' = overdue /\ dropped' = dropped
        /\ server' = server \/ server' = [server EXCEPT !.xmitBlock = c]
      BY <1>8 DEF RetransmitDownload
  <2>2. /\ c \in Nat /\ c <= server.currentBlock /\ server.xmitBlock <= server.currentBlock
    <3>1. /\ server.clientBlock \in Nat /\ server.currentBlock \in Nat
          /\ client.expected \in Nat /\ server.xmitBlock <= server.currentBlock
          /\ server.clientBlock <= client.expected /\ client.expected <= server.currentBlock
        BY Numbers
    <3> QED
      BY <3>1
  <2> HIDE DEF c
  <2>3. /\ server' \in Servers /\ server'.clientBlock = server.clientBlock
        /\ server'.blocks = server.blocks /\ server'.count = server.count
        /\ server'.currentBlock = server.currentBlock
        /\ server'.named = server.named /\ server'.open = server.open
        /\ server'.xmitBlock <= server'.currentBlock
    <3>1. CASE server' = server
        BY <1>2, <2>2, <3>1
    <3>2. CASE server' = [server EXCEPT !.xmitBlock = c]
        BY <1>2, <2>2, <3>2 DEF Servers
    <3> QED
      BY <2>1, <3>1, <3>2
  <2>4. RingOK(server, intact)' /\ \A i \in DOMAIN down' : Sent(server, down[i])'
      BY <1>1, <2>3, RingLeftAlone
  <2>5. Answered'
      BY <1>1, <1>8, <2>3, AnswersLeftAlone
  <2>6. DownloadTypes' /\ NeverBroken'
      BY <1>1, <1>3, <2>1, <2>3 DEF IInv, DownloadTypes, NeverBroken
  <2>7. ~Asking
      BY <1>8 DEF Asking, Asked
  <2>8. (\A i \in DOMAIN up : up[i].cmd # "download")'
      BY <1>3, <2>7 DEF IInv
  <2>9. (~Asking /\ Allowed /\ ~server.named => ~Running)'
      BY <1>1, <2>3, <2>7 DEF IInv, Allowed, Running
  <2>10. (server.named /\ ~server.open =>
            server.clientBlock = 0 /\ server.currentBlock = 0 /\ server.count = 0)'
      BY <2>3 DEF IInv
  <2> QED
    BY <1>4, <1>5, <2>4, <2>5, <2>6, <2>8, <2>9, <2>10 DEF IInv
<1>9. CASE Head(up).cmd = "stopdl" /\ StopDownload
  <2>1. /\ overdue' = overdue /\ dropped' = dropped
        /\ server' = [server EXCEPT !.named = FALSE, !.open = FALSE]
      BY <1>9 DEF StopDownload, Closed
  <2>2. /\ server' \in Servers /\ server'.clientBlock = server.clientBlock
        /\ server'.blocks = server.blocks /\ server'.count = server.count
        /\ server'.currentBlock = server.currentBlock /\ server'.xmitBlock = server.xmitBlock
        /\ ~server'.named
      BY <1>2, <2>1 DEF Servers
  <2>3. server'.xmitBlock <= server'.currentBlock
      BY <2>2, Numbers
  <2>4. RingOK(server, intact)' /\ \A i \in DOMAIN down' : Sent(server, down[i])'
      BY <1>1, <2>2, <2>3, RingLeftAlone
  <2>5. Answered'
      BY <1>1, <1>9, <2>2, AnswersLeftAlone
  <2>6. DownloadTypes' /\ NeverBroken'
      BY <1>1, <1>3, <2>1, <2>2 DEF IInv, DownloadTypes, NeverBroken
  <2>7. ~Asking
      BY <1>9 DEF Asking, Asked
  <2>8. (\A i \in DOMAIN up : up[i].cmd # "download")'
      BY <1>3, <2>7 DEF IInv
  <2>9. ~Running'
      BY <1>1, <1>3, <1>9 DEF IInv, Running
  <2> QED
    BY <1>4, <1>5, <2>2, <2>4, <2>5, <2>6, <2>8, <2>9 DEF IInv
<1> QED
  BY <1>6, <1>7, <1>8, <1>9 DEF ExecuteClientCommand

------------------------------------------------------------------------------
(* The theorems.                                                            *)

LEMMA Started == Init => IInv
<1> SUFFICES ASSUME Init PROVE IInv
    OBVIOUS
<1> DEFINE blank == [from |-> 0, size |-> 0]
           blanks == [i \in 0..Window - 1 |-> blank]
<1>1. FileSize \in Nat \ {0} /\ Window \in Nat \ {0} /\ 0 \in 0..FileSize
    BY DownloadAssumption
<1>2. blank \in Record /\ blanks \in [0..Window - 1 -> Record]
    BY <1>1 DEF Record
<1>3. /\ server = Idle /\ up = <<Asked>> /\ Asked \in Commands /\ down = <<>> /\ got = <<>>
      /\ client = [expected |-> 0, outcome |-> "running"] /\ dropped = FALSE /\ intact = TRUE
      /\ permission \in Permissions /\ disk = FileSize /\ overdue = FALSE
    BY DEF Init, Asked, Commands
<1>4. server = [named |-> FALSE, open |-> FALSE, count |-> 0, clientBlock |-> 0,
                currentBlock |-> 0, xmitBlock |-> 0, eof |-> FALSE, blocks |-> blanks]
    BY <1>3 DEF Idle
<1> HIDE DEF blanks
<1>5. /\ server \in Servers /\ server.clientBlock = 0 /\ server.currentBlock = 0
      /\ server.xmitBlock = 0 /\ server.count = 0 /\ ~server.named
    BY <1>1, <1>2, <1>4 DEF Servers
<1>6. client \in Clients /\ client.expected = 0 /\ client.outcome = "running"
    BY <1>3 DEF Clients, Outcomes
<1>7. up \in Seq(Commands) /\ DOMAIN up = 1..1 /\ up[1] = Asked
    BY <1>3
<1>8. DownloadTypes /\ NeverBroken
  <2>1. down \in Seq(Messages) /\ got \in Seq(1..FileSize) /\ disk \in 0..FileSize
      BY <1>1, <1>3
  <2> QED
    BY <1>3, <1>5, <1>6, <1>7, <2>1 DEF DownloadTypes, NeverBroken
<1>9. RingOK(server, intact)
  <2>1. Bounds(server)
      BY <1>1, <1>5, <1>6 DEF Bounds
  <2>2. Parts(server, intact) /\ Joined(server, intact) /\ Unanswered(server)
      BY <1>5, <1>6 DEF Parts, Joined, Unanswered
  <2>3. Placed(server, intact)
      BY <1>3, <1>5, <1>6 DEF Placed
  <2> QED
    BY <2>1, <2>2, <2>3 DEF RingOK
<1>10. Asking
    BY <1>3, <1>6 DEF Asking
<1>11. Answered
    BY <1>5, <1>6, <1>7 DEF Answered, Asked
<1>12. \A i \in DOMAIN up : up[i].cmd = "stopdl" => client.outcome = "stopped"
    BY <1>7 DEF Asked
<1>13. \A i \in DOMAIN down : Sent(server, down[i])
    BY <1>3
<1> QED
  BY <1>3, <1>5, <1>8, <1>9, <1>10, <1>11, <1>12, <1>13 DEF IInv

LEMMA Untouched ==
    ASSUME IInv, UNCHANGED vars
    PROVE  IInv'
<1>1. UNCHANGED <<permission, server, overdue, disk, down, up, client, got, dropped, intact>>
    BY DEF vars
<1>2. DownloadTypes' /\ NeverBroken'
    BY <1>1 DEF IInv, DownloadTypes, NeverBroken
<1>3. RingOK(server, intact)'
    BY <1>1 DEF IInv, RingOK, Bounds, Parts, Joined, Unanswered, Placed, Running, Rec
<1>4. \A i \in DOMAIN down' : Sent(server, down[i])'
    BY <1>1 DEF IInv, Sent, Rec
<1>5. Answered' /\ (Asking' <=> Asking)
    BY <1>1 DEF IInv, Answered, Asking
<1> QED
  BY <1>1, <1>2, <1>3, <1>4, <1>5 DEF IInv, Allowed, Running

\* Whatever the network and the disk do, the blocks of the window are consecutive parts of the
\* file, the packets under way carry what the window holds, and the answers under way are those
\* to the blocks the server does not know to have arrived (iw1x.cpp 2132-2265).
THEOREM DownloadInvariance == Spec => []IInv
<1>1. Init => IInv
    BY Started
<1>2. IInv /\ [Next]_vars => IInv'
  <2> SUFFICES ASSUME IInv, [Next]_vars PROVE IInv'
      OBVIOUS
  <2>1. CASE UNCHANGED vars
      BY <2>1, Untouched
  <2>2. CASE Next
      BY <2>2, SnapshotTaken, Waited, CommandRead, Accepted, Ignored, RefusalRead, Stopped,
         Lost, Shortened DEF Next
  <2> QED
    BY <2>1, <2>2
<1> QED
  BY <1>1, <1>2, PTL DEF Spec

\* The download fields of client_t keep their types, and the client its units.
THEOREM TypeCorrect == Spec => []TypeOK
<1>1. IInv => TypeOK
    BY DEF IInv, DownloadTypes, Servers, Clients, Outcomes, TypeOK
<1> QED
  BY <1>1, DownloadInvariance, PTL

\* The server never takes the answer of a well-behaved client for a broken download.
THEOREM NeverBrokenHolds == Spec => []NeverBroken
<1>1. IInv => NeverBroken
    BY DEF IInv
<1> QED
  BY <1>1, DownloadInvariance, PTL

\* The server forgets a download it agreed to only after the client has it or has given up.
THEOREM ClosedAfterClientHolds == Spec => []ClosedAfterClient
<1>1. IInv => ClosedAfterClient
    BY DEF IInv, Asking, Asked, Running, ClosedAfterClient
<1> QED
  BY <1>1, DownloadInvariance, PTL

------------------------------------------------------------------------------
(* The download implements FileTransfer.                                    *)

\* An accepted block delivers its units, or it is the empty one that ends the file.
LEMMA AcceptDelivers ==
    ASSUME IInv, Accept
    PROVE  Transfer!Deliver \/ Transfer!Finish
<1> DEFINE from == Head(down).from
           size == Head(down).size
<1>1. /\ client.outcome = "running" /\ intact' = intact
      /\ client'.outcome = IF size = 0 THEN "done" ELSE "running"
    BY DEF Accept, Running
<1>2. /\ from \in Nat /\ size \in Nat /\ from + size <= FileSize
      /\ intact /\ size = 0 => from = FileSize
      /\ intact \/ size # 0 => from = Len(got)
      /\ got' = got \o Units(from, size)
    BY UnitsArrive
<1> HIDE DEF from, size
<1>3. FileSize \in Nat /\ got \in Seq(1..FileSize) /\ Len(got) \in Nat
    BY DownloadAssumption DEF IInv, DownloadTypes
<1>4. CASE size = 0
  <2>1. Units(from, size) = <<>>
      BY <1>4 DEF Units
  <2>2. got' = got
      BY <1>2, <1>3, <2>1, ConcatEmptySeq
  <2>3. Len(got) = FileSize \/ ~intact
      BY <1>2, <1>4
  <2> QED
    BY <1>1, <1>4, <2>2, <2>3 DEF Transfer!Finish
<1>5. CASE size # 0
  <2>1. size \in 1..FileSize - Len(got)
      BY <1>2, <1>3, <1>5
  <2>2. got' = got \o Transfer!Units(Len(got), size)
      BY <1>2, <1>5 DEF Units, Transfer!Units
  <2> QED
    BY <1>1, <1>5, <2>1, <2>2 DEF Transfer!Deliver
<1> QED
  BY <1>4, <1>5

LEMMA StepTransfers ==
    ASSUME IInv, [Next]_vars
    PROVE  Transfer!Next \/ UNCHANGED Transfer!vars
<1>1. CASE Accept
    BY <1>1, AcceptDelivers DEF Transfer!Next
<1>2. CASE Refused \/ Stop
  <2>1. /\ client.outcome = "running" /\ client \in Clients
        /\ UNCHANGED <<got, intact>>
        /\ client' = [client EXCEPT !.outcome = "failed"]
           \/ client' = [client EXCEPT !.outcome = "stopped"]
      BY <1>2 DEF Refused, Stop, Running, IInv, DownloadTypes
  <2>2. client'.outcome \in {"failed", "stopped"}
      BY <2>1 DEF Clients
  <2> QED
    BY <2>1, <2>2 DEF Transfer!GiveUp, Transfer!Next
<1>3. CASE Snapshot \/ Shorten
  <2>1. UNCHANGED <<got, client>> /\ (intact' = FALSE \/ intact' = intact)
      BY <1>3 DEF Snapshot, Shorten
  <2> QED
    BY <2>1 DEF Transfer!Damage, Transfer!Next, Transfer!vars
<1>4. CASE Wait \/ ExecuteClientCommand \/ Ignore \/ Lose \/ UNCHANGED vars
  <2>1. UNCHANGED <<got, client, intact>>
      BY <1>4 DEF Wait, ExecuteClientCommand, Ignore, Lose, vars
  <2> QED
    BY <2>1 DEF Transfer!vars
<1> QED
  BY <1>1, <1>2, <1>3, <1>4 DEF Next

\* Whatever is lost, sent again or answered late, the client writes the units of the file in
\* order, none missing and none twice, and is told the download is complete only when it is,
\* unless a read failed or the file was shortened.
THEOREM Refinement == Spec => ImplementsTransfer
<1>1. Init => Transfer!Init
    BY DEF Init, Transfer!Init
<1>2. IInv /\ [Next]_vars => [Transfer!Next]_(Transfer!vars)
    BY StepTransfers
<1> QED
  BY <1>1, <1>2, DownloadInvariance, PTL DEF Spec, Transfer!Spec, ImplementsTransfer
=============================================================================
