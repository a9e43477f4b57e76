------------------------- MODULE HNZCommandsProofs -------------------------
(***************************************************************************)
(* Proofs about HNZCommands, for any paths and any finite set of commands. *)
(***************************************************************************)
EXTENDS HNZCommands, SequenceTheorems, FiniteSetTheorems, TLAPS

---------------------------------------------------------------------------
(* Naturals                                                                 *)

\* A non-empty set of naturals has a least element.
LEMMA LeastElement ==
  ASSUME NEW T \in SUBSET Nat, T # {}
  PROVE  \E x \in T : \A y \in T : x <= y
<1> DEFINE R == {ss \in Nat \X Nat : ss[1] < ss[2]}
<1>1. IsWellFoundedOn(R, Nat)
  BY NatLessThanWellFounded DEF OpToRel
<1>2. \A x, y \in Nat : <<y, x>> \in R <=> y < x
  OBVIOUS
<1> HIDE DEF R
<1>3. \E x \in T : \A y \in T : ~(<<y, x>> \in R)
  <2>1. T \subseteq Nat
    OBVIOUS
  <2>2. QED
    BY <1>1, <2>1, WFMin, Zenon
<1>4. ASSUME NEW x \in T, NEW y \in T, ~(<<y, x>> \in R) PROVE x <= y
  <2>1. x \in Nat /\ y \in Nat /\ ~(y < x)
    BY <1>2, <1>4
  <2>2. QED
    BY <2>1
<1>5. QED
  BY <1>3, <1>4

\* Induction up to N: H is the set of the numbers that have the property.
LEMMA UpTo ==
  ASSUME NEW N \in Nat, NEW H \in SUBSET Nat, 0 \in H,
         \A n \in 0..(N - 1) : n \in H => n + 1 \in H
  PROVE  \A n \in 0..N : n \in H
<1> DEFINE Rest == {n \in 0..N : n \notin H}
<1>1. SUFFICES ASSUME Rest # {} PROVE FALSE
  OBVIOUS
<1>2. PICK m \in Rest : \A n \in Rest : m <= n
  <2>1. Rest \in SUBSET Nat
    OBVIOUS
  <2> HIDE DEF Rest
  <2>2. QED
    BY <1>1, <2>1, LeastElement
<1>3. m \in Nat /\ m # 0 /\ m <= N /\ m \notin H
  OBVIOUS
<1>4. m - 1 \in 0..(N - 1) /\ m - 1 \in H
  BY <1>2, <1>3
<1>5. (m - 1) + 1 \in H
  BY <1>4
<1>6. QED
  BY <1>3, <1>5

---------------------------------------------------------------------------
(* Lists of commands                                                        *)

\* receivedCommandACK erases the commands of that type and address
Acknowledges(d, type, addr) == d.type = type /\ RegisteredAddress(d) = addr

\* The loop of receivedCommandACK after n commands, given what it had before
Loop(f, n, list, type, addr) ==
  IF n = 0 THEN <<>>
  ELSE IF Acknowledges(list[n], type, addr) THEN f[n - 1] ELSE Append(f[n - 1], list[n])

\* The loop of receivedCommandACK computes a value for each command of the list.
LEMMA LoopIsDefined ==
  ASSUME NEW list \in Seq(Commands), NEW type, NEW addr
  PROVE  \E f : /\ f = [n \in 0..Len(list) |-> Loop(f, n, list, type, addr)]
                /\ receivedCommandACK(list, type, addr) = f[Len(list)]
<1> DEFINE N == Len(list)
           L(f, n) == Loop(f, n, list, type, addr)
           F == CHOOSE f : f = [n \in 0..N |-> L(f, n)]
           H == {m \in Nat : \E f : f = [n \in 0..m |-> L(f, n)]}
<1>1. N \in Nat
  BY LenProperties
<1>2. \A f : L(f, 0) = <<>>
  BY DEF Loop
<1>3. \A f, g, n : n # 0 /\ f[n - 1] = g[n - 1] => L(f, n) = L(g, n)
  BY DEF Loop
<1>4. receivedCommandACK(list, type, addr) = F[N]
  BY DEF receivedCommandACK, Loop, Acknowledges
<1> HIDE DEF N, L
<1>5. 0 \in H
  <2> DEFINE g == [n \in 0..0 |-> <<>>]
  <2>1. g = [n \in 0..0 |-> L(g, n)]
    BY <1>2
  <2>2. QED
    BY <2>1
<1>6. ASSUME NEW m \in 0..(N - 1), m \in H PROVE m + 1 \in H
  <2>1. PICK f : f = [n \in 0..m |-> L(f, n)]
    BY <1>6
  <2> DEFINE g == [n \in 0..(m + 1) |-> IF n = m + 1 THEN L(f, n) ELSE f[n]]
  <2>2. m \in Nat /\ m + 1 \in Nat
    BY <1>1
  <2>3. \A n \in 0..m : f[n] = L(f, n)
    BY <2>1
  <2>4. ASSUME NEW n \in 0..(m + 1) PROVE g[n] = L(g, n)
    <3>1. n # 0 => n - 1 \in 0..m /\ g[n - 1] = f[n - 1]
      BY <2>2
    <3>2. L(f, n) = L(g, n)
      BY <1>2, <1>3, <3>1
    <3>3. n # m + 1 => n \in 0..m
      BY <2>2
    <3>4. g[n] = IF n = m + 1 THEN L(f, n) ELSE f[n]
      OBVIOUS
    <3>5. QED
      BY <2>3, <3>2, <3>3, <3>4
  <2>5. g = [n \in 0..(m + 1) |-> L(g, n)]
    BY <2>4
  <2>6. QED
    BY <2>2, <2>5
<1>7. N \in H
  <2>1. H \in SUBSET Nat
    OBVIOUS
  <2> HIDE DEF H
  <2>2. \A n \in 0..N : n \in H
    BY <1>1, <1>5, <1>6, <2>1, UpTo
  <2>3. QED
    BY <1>1, <2>2
<1>8. F = [n \in 0..N |-> L(F, n)]
  <2>1. \E f : f = [n \in 0..N |-> L(f, n)]
    BY <1>7
  <2>2. QED
    BY <2>1, Zenon
<1>9. QED
  BY <1>4, <1>8 DEF N, L

\* What a loop over the first n commands of a list may keep: some of them, none
\* twice unless the list has it twice, and none that is acknowledged.
KeptOf(q, n, list, type, addr) ==
  /\ q \in Seq(Commands)
  /\ \A i \in DOMAIN q : \E j \in 1..n : q[i] = list[j] /\ ~Acknowledges(list[j], type, addr)
  /\ IsInjective(list) => IsInjective(q)

\* receivedCommandACK leaves a part of the list, without what is acknowledged.
LEMMA RemainingFacts ==
  ASSUME NEW list \in Seq(Commands), NEW type, NEW addr
  PROVE  KeptOf(receivedCommandACK(list, type, addr), Len(list), list, type, addr)
<1> DEFINE N == Len(list)
<1>1. PICK f : /\ f = [n \in 0..N |-> Loop(f, n, list, type, addr)]
               /\ receivedCommandACK(list, type, addr) = f[N]
  BY LoopIsDefined
<1>2. \A n \in 0..N : f[n] = Loop(f, n, list, type, addr)
  BY <1>1
<1>3. N \in Nat /\ DOMAIN list = 1..N /\ \A j \in 1..N : list[j] \in Commands
  BY LenProperties, ElementOfSeq
<1> HIDE DEF N
<1> DEFINE Kept(n) == KeptOf(f[n], n, list, type, addr)
           H == {n \in Nat : Kept(n)}
<1>4. 0 \in H
  <2>1. f[0] = <<>>
    BY <1>2, <1>3 DEF Loop
  <2>2. DOMAIN <<>> = {} /\ <<>> \in Seq(Commands)
    BY EmptySeq
  <2>3. QED
    BY <2>1, <2>2 DEF IsInjective, KeptOf
<1>5. ASSUME NEW n \in 0..(N - 1), n \in H PROVE n + 1 \in H
  <2>1. n \in Nat /\ n + 1 \in 1..N /\ n + 1 # 0 /\ (n + 1) - 1 = n
    BY <1>3
  <2> DEFINE q == f[n]
             r == f[n + 1]
             c == list[n + 1]
  <2>2. r = IF Acknowledges(c, type, addr) THEN q ELSE Append(q, c)
    <3>1. r = Loop(f, n + 1, list, type, addr)
      BY <1>2, <2>1
    <3>2. QED
      BY <2>1, <3>1 DEF Loop
  <2>3. /\ q \in Seq(Commands) /\ c \in Commands
        /\ \A i \in DOMAIN q : \E j \in 1..n : q[i] = list[j] /\ ~Acknowledges(list[j], type, addr)
        /\ IsInjective(list) => IsInjective(q)
    BY <1>3, <1>5, <2>1 DEF KeptOf
  <2>4. \A j \in 1..n : j \in 1..(n + 1) /\ j \in DOMAIN list /\ j # n + 1
    BY <1>3, <2>1
  <2> SUFFICES KeptOf(r, n + 1, list, type, addr)
    BY <2>1
  <2> HIDE DEF q, r, c
  <2>5. CASE Acknowledges(c, type, addr)
    BY <2>2, <2>3, <2>4, <2>5 DEF KeptOf
  <2>6. CASE ~Acknowledges(c, type, addr)
    <3>1. r = Append(q, c)
      BY <2>2, <2>6
    <3>2. /\ Len(q) \in Nat /\ DOMAIN q = 1..Len(q)
          /\ r \in Seq(Commands) /\ Len(r) = Len(q) + 1
          /\ \A i \in 1..Len(q) : r[i] = q[i]
          /\ r[Len(q) + 1] = c
      BY <2>3, <3>1, AppendProperties, LenProperties
    <3>3. DOMAIN r = 1..(Len(q) + 1)
      BY <3>2, LenProperties
    <3>4. \A i \in DOMAIN r : (i \in DOMAIN q /\ r[i] = q[i]) \/ (i = Len(q) + 1 /\ r[i] = c)
      BY <3>2, <3>3
    <3>5. \A i \in DOMAIN r : \E j \in 1..(n + 1) : r[i] = list[j] /\ ~Acknowledges(list[j], type, addr)
      BY <2>1, <2>3, <2>4, <2>6, <3>4 DEF c
    <3>6. ASSUME IsInjective(list) PROVE IsInjective(r)
      <4>1. \A i \in DOMAIN q : q[i] # c
        BY <1>3, <2>1, <2>3, <2>4, <3>6 DEF IsInjective, c
      <4>2. QED
        BY <2>3, <3>4, <3>6, <4>1 DEF IsInjective
    <3>7. QED
      BY <3>2, <3>5, <3>6 DEF KeptOf
  <2>7. QED
    BY <2>5, <2>6
<1>6. N \in H
  <2>1. H \in SUBSET Nat
    OBVIOUS
  <2> HIDE DEF H
  <2>2. \A n \in 0..N : n \in H
    BY <1>3, <1>4, <1>5, <2>1, UpTo
  <2>3. QED
    BY <1>3, <2>2
<1>7. QED
  BY <1>1, <1>6 DEF N

\* Elements of a list that is shortened at its end, or extended at its front.
LEMMA PrefixFacts ==
  ASSUME NEW q \in Seq(Commands), NEW k \in 1..Len(q)
  PROVE  LET r == SubSeq(q, 1, Len(q) - k)
         IN /\ r \in Seq(Commands)
            /\ \A i \in DOMAIN r : i \in DOMAIN q /\ r[i] = q[i]
<1> DEFINE n == Len(q) - k
           r == SubSeq(q, 1, n)
<1>1. Len(q) \in Nat /\ DOMAIN q = 1..Len(q) /\ n \in Int /\ n <= Len(q)
      /\ \A i \in 1..Len(q) : q[i] \in Commands
  BY LenProperties, ElementOfSeq
<1>2. \A i \in 1..n : q[i] \in Commands
  BY <1>1
<1> HIDE DEF n
<1>3. /\ r \in Seq(Commands)
      /\ Len(r) = IF 1 <= n THEN n - 1 + 1 ELSE 0
      /\ \A i \in 1..(n - 1 + 1) : r[i] = q[1 + i - 1]
  BY <1>1, <1>2, SubSeqProperties
<1>4. DOMAIN r = 1..Len(r)
  BY <1>3, LenProperties
<1> HIDE DEF r
<1>5. \A i \in DOMAIN r : i \in 1..n /\ i \in 1..Len(q) /\ 1 + i - 1 = i
  BY <1>1, <1>3, <1>4
<1>6. QED
  BY <1>1, <1>3, <1>5 DEF r, n

LEMMA FrontFacts ==
  ASSUME NEW q \in Seq(Commands), NEW c \in Commands
  PROVE  LET r == <<c>> \o q
         IN /\ r \in Seq(Commands)
            /\ \A i \in DOMAIN r : (i = 1 /\ r[i] = c) \/ (i # 1 /\ i - 1 \in DOMAIN q /\ r[i] = q[i - 1])
<1> DEFINE r == <<c>> \o q
<1>1. <<c>> \in Seq(Commands) /\ Len(<<c>>) = 1 /\ <<c>>[1] = c
  OBVIOUS
<1>2. Len(q) \in Nat /\ DOMAIN q = 1..Len(q)
  BY LenProperties
<1>3. /\ r \in Seq(Commands)
      /\ Len(r) = 1 + Len(q)
      /\ \A i \in 1..(1 + Len(q)) : r[i] = IF i <= 1 THEN <<c>>[i] ELSE q[i - 1]
  BY <1>1, ConcatProperties
<1>4. DOMAIN r = 1..(1 + Len(q))
  BY <1>3, LenProperties
<1> HIDE DEF r
<1>5. QED
  BY <1>1, <1>2, <1>3, <1>4 DEF r

\* A list without repetition is no longer than there are commands.
LEMMA DistinctIsShort ==
  ASSUME NEW q \in Seq(Commands), IsInjective(q)
  PROVE  Len(q) <= Cardinality(Commands)
<1> USE CommandsAssumption
<1>1. Len(q) \in Nat /\ q \in [1..Len(q) -> Commands]
  BY LenProperties
<1>2. q \in Injection(1..Len(q), Commands)
  BY <1>1 DEF Injection
<1>3. Cardinality(1..Len(q)) <= Cardinality(Commands)
  BY <1>2, FS_Injection
<1>4. Cardinality(1..Len(q)) = IF 1 > Len(q) THEN 0 ELSE Len(q) - 1 + 1
  BY SMTT(30), <1>1, FS_Interval
<1>5. QED
  BY <1>1, <1>3, <1>4

\* The address of a command comes back in its acknowledgement if the fields of
\* the frame can hold it.
LEMMA AddressComesBack ==
  ASSUME NEW c \in Commands, HasFrame(c)
  PROVE  Acknowledges(c, c.type, FrameAddress(c))
<1>1. c.addr \in Nat
  BY CommandsAssumption
<1>2. \A a \in Nat : a < 2560 /\ a % 10 < 8 => ((a \div 10) % 256) * 10 + ((a % 10) % 8) = a
  <2> TAKE a \in Nat
  <2> HAVE a < 2560 /\ a % 10 < 8
  <2>1. a = (a \div 10) * 10 + (a % 10) /\ (a \div 10) \in 0..255 /\ (a % 10) \in 0..7
    OBVIOUS
  <2>2. \A d \in 0..255 : d % 256 = d
    OBVIOUS
  <2>3. \A d \in 0..7 : d % 8 = d
    OBVIOUS
  <2>4. (a \div 10) % 256 = a \div 10 /\ (a % 10) % 8 = a % 10
    BY <2>1, <2>2, <2>3
  <2>5. QED
    BY <2>1, <2>4
<1>3. \A a \in Nat : a < 32 => a % 32 = a /\ a % 256 = a
  OBVIOUS
<1>4. QED
  BY <1>1, <1>2, <1>3 DEF HasFrame, FrameAddress, RegisteredAddress, Acknowledges

---------------------------------------------------------------------------
(* The invariant                                                            *)

VarTypes ==
  /\ active \in Paths \cup {None}
  /\ full \in [Paths -> BOOLEAN]
  /\ msg_waiting \in [Paths -> Seq(Commands)]
  /\ command_sent \in [Paths -> Seq(Commands)]
  /\ thread \in [Commands -> [pc : Positions, path : Paths \cup {None}]]
  /\ result \in [Commands -> {"none", "sent", "refused"}]
  /\ terminated \in BOOLEAN
  /\ transmitted \subseteq Commands /\ handled \subseteq transmitted /\ overtaken \subseteq handled

\* Where the thread of a command is tells what has become of the command; an
\* acknowledgement can overtake its registration, and is then remembered.
ThreadInv ==
  \A c \in Commands :
    /\ thread[c].pc \in {"send", "register"} => thread[c].path \in Paths
    /\ thread[c].pc \in {"new", "send"} => c \notin transmitted
    /\ thread[c].pc = "register" => c \in transmitted /\ (c \in handled => c \in overtaken)

\* A queued command was refused: its thread does not come back to register it.
QueuedInv == \A p \in Paths : \A i \in DOMAIN msg_waiting[p] : thread[msg_waiting[p][i]].pc = "done"

\* What is known of an element of command_sent
Awaited(c) ==
  /\ thread[c].pc = "done" /\ c \in transmitted /\ result[c] = "sent"
  /\ c \in handled /\ HasFrame(c) => c \in overtaken

\* A command is registered once, after it was sent.
SentInv ==
  \A p \in Paths :
    /\ IsInjective(command_sent[p])
    /\ \A i \in DOMAIN command_sent[p] : Awaited(command_sent[p][i])

IInv == VarTypes /\ ThreadInv /\ QueuedInv /\ SentInv

---------------------------------------------------------------------------
(* Preservation                                                             *)

\* The elements of the lists are commands.
LEMMA Elements ==
  ASSUME VarTypes, NEW p \in Paths
  PROVE  /\ \A i \in DOMAIN msg_waiting[p] : msg_waiting[p][i] \in Commands
         /\ \A i \in DOMAIN command_sent[p] : command_sent[p][i] \in Commands
<1>1. ASSUME NEW q \in Seq(Commands) PROVE \A i \in DOMAIN q : q[i] \in Commands
  BY LenProperties, ElementOfSeq
<1>2. QED
  BY <1>1 DEF VarTypes

\* A step of the thread of c that does not touch the lists.
LEMMA ThreadMoves ==
  ASSUME IInv, NEW c \in Commands, thread[c].pc \in {"new", "send"},
         NEW pc \in Positions \ {"new"}, NEW path \in Paths \cup {None}, ThreadTo(c, pc, path),
         pc \in {"send", "register"} => path \in Paths,
         UNCHANGED <<active, full, msg_waiting, command_sent, terminated, handled, overtaken>>,
         pc = "register" => transmitted' = transmitted \cup {c},
         pc # "register" => transmitted' = transmitted,
         result' = result \/ Return(c, "refused")
  PROVE  IInv'
<1> USE DEF IInv
<1>1. thread \in [Commands -> [pc : Positions, path : Paths \cup {None}]] /\ result \in [Commands -> {"none", "sent", "refused"}]
  BY DEF VarTypes
<1>2. /\ thread' \in [Commands -> [pc : Positions, path : Paths \cup {None}]]
      /\ thread'[c] = [pc |-> pc, path |-> path]
      /\ \A d \in Commands \ {c} : thread'[d] = thread[d]
  BY <1>1 DEF ThreadTo
<1>3. result' \in [Commands -> {"none", "sent", "refused"}] /\ \A d \in Commands \ {c} : result'[d] = result[d]
  BY <1>1 DEF Return
<1>4. transmitted' \subseteq Commands /\ transmitted \subseteq transmitted' /\ transmitted' \ {c} \subseteq transmitted
  BY DEF VarTypes, Positions
<1>5. VarTypes'
  BY <1>2, <1>3, <1>4 DEF VarTypes
<1>6. c \notin transmitted /\ c \notin handled
  BY DEF ThreadInv, VarTypes
<1>7. ThreadInv'
  BY <1>2, <1>4, <1>6 DEF ThreadInv
<1>8. \A d \in Commands : thread[d].pc = "done" => d # c /\ thread'[d].pc = "done"
  BY <1>2
<1>9. QueuedInv'
  BY <1>8, Elements DEF QueuedInv
<1>10. ASSUME NEW d \in Commands, Awaited(d) PROVE Awaited(d)'
  <2>1. d # c
    BY <1>10 DEF Awaited
  <2>2. QED
    BY <1>2, <1>3, <1>4, <1>10, <2>1 DEF Awaited, HasFrame
<1>11. SentInv'
  BY <1>10, Elements DEF SentInv, IsInjective
<1>12. QED
  BY <1>5, <1>7, <1>9, <1>11

\* A step that changes the lists of awaited commands of the paths only by
\* removing commands.
LEMMA ListsShrink ==
  ASSUME IInv,
         command_sent' \in [Paths -> Seq(Commands)],
         \A p \in Paths : IsInjective(command_sent'[p]),
         \A p \in Paths : \A i \in DOMAIN command_sent'[p] :
            /\ \E j \in DOMAIN command_sent[p] : command_sent'[p][i] = command_sent[p][j]
            /\ command_sent'[p][i] \in handled' /\ HasFrame(command_sent'[p][i])
                 => command_sent'[p][i] \in handled \cup overtaken',
         handled \subseteq handled' /\ handled' \subseteq transmitted,
         overtaken \subseteq overtaken' /\ overtaken' \subseteq handled',
         \A c \in handled' \ handled : thread[c].pc = "register" => c \in overtaken',
         UNCHANGED <<active, full, msg_waiting, thread, result, terminated, transmitted>>
  PROVE  IInv'
<1> USE DEF IInv
<1>1. VarTypes'
  BY DEF VarTypes
<1>2. ThreadInv'
  BY DEF ThreadInv
<1>3. QueuedInv'
  BY DEF QueuedInv
<1>4. SentInv'
  <2> SUFFICES ASSUME NEW p \in Paths, NEW i \in DOMAIN command_sent'[p]
               PROVE  Awaited(command_sent[p][i])'
    BY DEF SentInv
  <2> DEFINE c == command_sent'[p][i]
  <2>1. PICK j \in DOMAIN command_sent[p] : c = command_sent[p][j]
    OBVIOUS
  <2>2. Awaited(c)
    BY <2>1 DEF SentInv
  <2>3. c \in handled' /\ HasFrame(c) => c \in handled \cup overtaken'
    OBVIOUS
  <2> HIDE DEF c
  <2>4. /\ thread'[c].pc = "done" /\ c \in transmitted' /\ result'[c] = "sent"
        /\ c \in handled' /\ HasFrame(c) => c \in overtaken'
    BY <2>2, <2>3 DEF Awaited, HasFrame
  <2>5. QED
    BY <2>4 DEF c, Awaited, HasFrame
<1>5. QED
  BY <1>1, <1>2, <1>3, <1>4

\* The end of m_registerCommandIfSent puts a command in front of the others.
LEMMA RegisterPreserves ==
  ASSUME IInv, NEW c \in Commands, RegisterCommand(c)
  PROVE  IInv'
<1> USE DEF IInv
<1> DEFINE p == thread[c].path
<1>1. thread[c].pc = "register" /\ p \in Paths /\ c \in transmitted /\ (c \in handled => c \in overtaken)
  BY DEF RegisterCommand, At, ThreadInv
<1>2. thread \in [Commands -> [pc : Positions, path : Paths \cup {None}]] /\ result \in [Commands -> {"none", "sent", "refused"}]
  BY DEF VarTypes
<1>3. UNCHANGED <<active, full, msg_waiting, terminated, transmitted, handled, overtaken>>
  BY DEF RegisterCommand, pathVars, rtuVars
<1>4. /\ thread' \in [Commands -> [pc : Positions, path : Paths \cup {None}]]
      /\ thread'[c] = [pc |-> "done", path |-> p]
      /\ \A d \in Commands \ {c} : thread'[d] = thread[d]
  <2>1. thread' = [thread EXCEPT ![c] = [pc |-> "done", path |-> p]]
    BY DEF RegisterCommand, ThreadTo, Registered
  <2>2. [pc |-> "done", path |-> p] \in [pc : Positions, path : Paths \cup {None}]
    BY <1>1 DEF Positions
  <2> HIDE DEF p
  <2>3. QED
    BY <1>2, <2>1, <2>2
<1>5. result' \in [Commands -> {"none", "sent", "refused"}] /\ result'[c] = "sent"
      /\ \A d \in Commands \ {c} : result'[d] = result[d]
  BY <1>2 DEF RegisterCommand, Return
<1>6. command_sent' = [command_sent EXCEPT ![p] = <<c>> \o @]
  BY DEF RegisterCommand
<1> HIDE DEF p
<1> DEFINE q == command_sent[p]
           r == <<c>> \o q
<1>7. q \in Seq(Commands) /\ command_sent \in [Paths -> Seq(Commands)]
  BY <1>1 DEF VarTypes
<1>8. /\ r \in Seq(Commands)
      /\ \A i \in DOMAIN r : (i = 1 /\ r[i] = c) \/ (i # 1 /\ i - 1 \in DOMAIN q /\ r[i] = q[i - 1])
      /\ \A i \in DOMAIN r : i \in Int
  <2>1. r \in Seq(Commands)
        /\ \A i \in DOMAIN r : (i = 1 /\ r[i] = c) \/ (i # 1 /\ i - 1 \in DOMAIN q /\ r[i] = q[i - 1])
    BY <1>7, FrontFacts
  <2>2. Len(r) \in Nat /\ DOMAIN r = 1..Len(r)
    BY <2>1, LenProperties
  <2> HIDE DEF r, q
  <2>3. QED
    BY <2>1, <2>2
<1>9. /\ command_sent' \in [Paths -> Seq(Commands)]
      /\ command_sent'[p] = r
      /\ \A o \in Paths \ {p} : command_sent'[o] = command_sent[o]
  BY <1>1, <1>6, <1>7, <1>8
<1>10. \A o \in Paths : \A i \in DOMAIN command_sent[o] : /\ command_sent[o][i] \in Commands
                                                         /\ Awaited(command_sent[o][i])
  BY Elements DEF SentInv
<1>11. \A i \in DOMAIN q : q[i] \in Commands \ {c} /\ Awaited(q[i])
  BY <1>1, <1>10 DEF Awaited
<1>12. IsInjective(q)
  BY <1>1 DEF SentInv
<1> HIDE DEF q, r
<1>13. IsInjective(r)
  BY <1>8, <1>11, <1>12 DEF IsInjective
<1>14. VarTypes'
  BY <1>3, <1>4, <1>5, <1>9 DEF VarTypes
<1>15. ThreadInv'
  BY <1>3, <1>4 DEF ThreadInv
<1>16. QueuedInv'
  BY <1>1, <1>3, <1>4, Elements DEF QueuedInv
<1>17. Awaited(c)'
  BY <1>1, <1>3, <1>4, <1>5 DEF Awaited, HasFrame
<1>18. ASSUME NEW d \in Commands \ {c}, Awaited(d) PROVE Awaited(d)'
  BY <1>3, <1>4, <1>5, <1>18 DEF Awaited, HasFrame
<1>19. ASSUME NEW o \in Paths
       PROVE  IsInjective(command_sent'[o]) /\ \A i \in DOMAIN command_sent'[o] : Awaited(command_sent[o][i])'
  <2>1. CASE o = p
    <3>1. ASSUME NEW i \in DOMAIN r PROVE \E d \in Commands : r[i] = d /\ Awaited(d)'
      BY <1>8, <1>11, <1>17, <1>18
    <3>2. QED
      BY <1>9, <1>13, <2>1, <3>1 DEF Awaited, HasFrame
  <2>2. CASE o # p
    <3>1. command_sent'[o] = command_sent[o] /\ IsInjective(command_sent[o])
      BY <1>9, <2>2 DEF SentInv
    <3>2. ASSUME NEW i \in DOMAIN command_sent[o] PROVE \E d \in Commands : command_sent[o][i] = d /\ Awaited(d)'
      <4>1. command_sent[o][i] \in Commands /\ Awaited(command_sent[o][i]) /\ command_sent[o][i] # c
        BY <1>1, <1>10 DEF Awaited
      <4>2. QED
        BY <1>18, <4>1
    <3>3. QED
      BY <3>1, <3>2 DEF Awaited, HasFrame
  <2>3. QED
    BY <2>1, <2>2
<1>20. SentInv'
  BY <1>19 DEF SentInv, IsInjective
<1>21. QED
  BY <1>14, <1>15, <1>16, <1>20

\* An acknowledgement that is handled leaves nothing that its frame can name.
LEMMA HandlePreserves ==
  ASSUME IInv, NEW c \in Commands, HandleACK(c)
  PROVE  IInv'
<1> USE DEF IInv
<1>1. /\ c \in transmitted \ handled
      /\ handled' = handled \cup {c}
      /\ overtaken' = IF thread[c].pc = "register" THEN overtaken \cup {c} ELSE overtaken
      /\ command_sent' = [p \in Paths |-> receivedCommandACK(command_sent[p], c.type, FrameAddress(c))]
      /\ UNCHANGED <<active, full, msg_waiting, thread, result, terminated, transmitted>>
  BY DEF HandleACK, pathVars, AcknowledgedPaths
<1>2. ASSUME NEW p \in Paths
      PROVE  KeptOf(command_sent'[p], Len(command_sent[p]), command_sent[p], c.type, FrameAddress(c))
  <2>1. command_sent[p] \in Seq(Commands)
    BY DEF VarTypes
  <2>2. command_sent'[p] = receivedCommandACK(command_sent[p], c.type, FrameAddress(c))
    BY <1>1
  <2>3. QED
    BY <2>1, <2>2, RemainingFacts
<1>3. command_sent' \in [Paths -> Seq(Commands)]
  BY <1>1, <1>2 DEF KeptOf
<1>4. \A p \in Paths : IsInjective(command_sent'[p])
  BY <1>2 DEF KeptOf, SentInv
<1>5. ASSUME NEW p \in Paths, NEW i \in DOMAIN command_sent'[p]
      PROVE  /\ \E j \in DOMAIN command_sent[p] : command_sent'[p][i] = command_sent[p][j]
             /\ command_sent'[p][i] \in handled' /\ HasFrame(command_sent'[p][i])
                  => command_sent'[p][i] \in handled \cup overtaken'
  <2>1. PICK j \in 1..Len(command_sent[p]) :
          command_sent'[p][i] = command_sent[p][j] /\ ~Acknowledges(command_sent[p][j], c.type, FrameAddress(c))
    BY <1>2 DEF KeptOf
  <2>2. j \in DOMAIN command_sent[p]
    BY LenProperties DEF VarTypes
  <2>3. HasFrame(command_sent'[p][i]) => command_sent'[p][i] # c
    BY <2>1, AddressComesBack
  <2>4. QED
    BY <1>1, <2>1, <2>2, <2>3
<1>6. handled \subseteq handled' /\ handled' \subseteq transmitted
      /\ overtaken \subseteq overtaken' /\ overtaken' \subseteq handled'
      /\ \A d \in handled' \ handled : thread[d].pc = "register" => d \in overtaken'
  BY <1>1 DEF VarTypes
<1>7. QED
  BY <1>1, <1>3, <1>4, <1>5, <1>6, ListsShrink

\* m_check_command_timer removes the oldest commands.
LEMMA TimerPreserves ==
  ASSUME IInv, NEW p \in Paths, CheckCommandTimer(p)
  PROVE  IInv'
<1> USE DEF IInv
<1>1. PICK k \in 1..Len(command_sent[p]) :
        command_sent' = [command_sent EXCEPT ![p] = SubSeq(@, 1, Len(@) - k)]
  BY DEF CheckCommandTimer
<1>2. UNCHANGED <<active, full, msg_waiting, thread, result, terminated, transmitted, handled, overtaken>>
  BY DEF CheckCommandTimer, pathVars, rtuVars
<1> DEFINE q == command_sent[p]
           r == SubSeq(q, 1, Len(q) - k)
<1>3. q \in Seq(Commands) /\ command_sent \in [Paths -> Seq(Commands)] /\ IsInjective(q)
  BY DEF VarTypes, SentInv
<1>4. r \in Seq(Commands) /\ \A i \in DOMAIN r : i \in DOMAIN q /\ r[i] = q[i]
  BY <1>3, PrefixFacts
<1> HIDE DEF r
<1>5. /\ command_sent' \in [Paths -> Seq(Commands)]
      /\ command_sent'[p] = r
      /\ \A o \in Paths \ {p} : command_sent'[o] = command_sent[o]
  BY <1>1, <1>3, <1>4 DEF r
<1>6. \A o \in Paths : IsInjective(command_sent'[o])
  <2>1. IsInjective(r)
    BY <1>3, <1>4 DEF IsInjective
  <2>2. \A o \in Paths : IsInjective(command_sent[o])
    BY DEF SentInv
  <2>3. QED
    BY <1>5, <2>1, <2>2
<1>7. \A o \in Paths : \A i \in DOMAIN command_sent'[o] :
        i \in DOMAIN command_sent[o] /\ command_sent'[o][i] = command_sent[o][i]
  BY <1>4, <1>5
<1>8. QED
  BY <1>2, <1>5, <1>6, <1>7, ListsShrink DEF VarTypes

\* Steps of the paths: nothing is registered and no thread moves.
LEMMA PathsPreserve ==
  ASSUME IInv, active' \in Paths \cup {None}, full' \in [Paths -> BOOLEAN],
         msg_waiting' \in [Paths -> Seq(Commands)],
         \A p \in Paths : msg_waiting'[p] = msg_waiting[p] \/ msg_waiting'[p] = <<>>,
         transmitted \subseteq transmitted' /\ transmitted' \subseteq Commands,
         \A c \in transmitted' \ transmitted : thread[c].pc = "done",
         terminated' \in BOOLEAN,
         UNCHANGED <<command_sent, thread, result, handled, overtaken>>
  PROVE  IInv'
<1> USE DEF IInv
<1>1. VarTypes'
  BY DEF VarTypes
<1>2. ThreadInv'
  BY DEF ThreadInv
<1>3. QueuedInv'
  <2>1. DOMAIN <<>> = {}
    OBVIOUS
  <2>2. ASSUME NEW p \in Paths, NEW i \in DOMAIN msg_waiting'[p]
        PROVE  i \in DOMAIN msg_waiting[p] /\ msg_waiting'[p][i] = msg_waiting[p][i]
    <3>1. msg_waiting'[p] = msg_waiting[p]
      BY <2>1
    <3>2. QED
      BY <3>1
  <2>3. QED
    BY <2>2 DEF QueuedInv
<1>4. SentInv'
  BY DEF SentInv, Awaited, HasFrame, IsInjective
<1>5. QED
  BY <1>1, <1>2, <1>3, <1>4

\* A command that finds the window full is queued, and its thread ends.
LEMMA QueueGrows ==
  ASSUME IInv, NEW c \in Commands, thread[c].pc = "send", NEW p \in Paths,
         ThreadTo(c, "done", p), Return(c, "refused"),
         msg_waiting' = [msg_waiting EXCEPT ![p] = Append(@, c)],
         UNCHANGED <<active, full, command_sent, terminated, transmitted, handled, overtaken>>
  PROVE  IInv'
<1> USE DEF IInv
<1>1. thread \in [Commands -> [pc : Positions, path : Paths \cup {None}]] /\ result \in [Commands -> {"none", "sent", "refused"}]
  BY DEF VarTypes
<1>2. /\ thread' \in [Commands -> [pc : Positions, path : Paths \cup {None}]]
      /\ thread'[c] = [pc |-> "done", path |-> p]
      /\ \A d \in Commands \ {c} : thread'[d] = thread[d]
  BY <1>1 DEF ThreadTo, Positions
<1>3. result' \in [Commands -> {"none", "sent", "refused"}] /\ \A d \in Commands \ {c} : result'[d] = result[d]
  BY <1>1 DEF Return
<1> DEFINE q == msg_waiting[p]
           r == Append(q, c)
<1>4. q \in Seq(Commands) /\ msg_waiting \in [Paths -> Seq(Commands)]
  BY DEF VarTypes
<1>5. /\ r \in Seq(Commands)
      /\ \A i \in DOMAIN r : (i \in DOMAIN q /\ r[i] = q[i]) \/ r[i] = c
  <2>1. /\ Len(q) \in Nat /\ DOMAIN q = 1..Len(q)
        /\ r \in Seq(Commands) /\ Len(r) = Len(q) + 1
        /\ \A i \in 1..Len(q) : r[i] = q[i]
        /\ r[Len(q) + 1] = c
    BY <1>4, AppendProperties, LenProperties
  <2>2. DOMAIN r = 1..(Len(q) + 1)
    BY <2>1, LenProperties
  <2>3. QED
    BY <2>1, <2>2
<1> HIDE DEF r
<1>6. /\ msg_waiting' \in [Paths -> Seq(Commands)]
      /\ msg_waiting'[p] = r
      /\ \A o \in Paths \ {p} : msg_waiting'[o] = msg_waiting[o]
  BY <1>4, <1>5 DEF r
<1>7. VarTypes'
  BY <1>2, <1>3, <1>6 DEF VarTypes
<1>8. ThreadInv'
  BY <1>2 DEF ThreadInv
<1>9. \A d \in Commands : thread[d].pc = "done" => thread'[d].pc = "done"
  BY <1>2
<1>10. QueuedInv'
  <2>1. \A o \in Paths : \A i \in DOMAIN msg_waiting[o] : thread'[msg_waiting[o][i]].pc = "done"
    BY <1>9, Elements DEF QueuedInv
  <2>2. thread'[c].pc = "done"
    BY <1>2
  <2>3. QED
    BY <1>5, <1>6, <2>1, <2>2 DEF QueuedInv
<1>11. ASSUME NEW d \in Commands, Awaited(d) PROVE Awaited(d)'
  <2>1. d # c
    BY <1>11 DEF Awaited
  <2>2. QED
    BY <1>2, <1>3, <1>11, <2>1 DEF Awaited, HasFrame
<1>12. SentInv'
  BY <1>11, Elements DEF SentInv, IsInjective
<1>13. QED
  BY <1>7, <1>8, <1>10, <1>12

\* Every step keeps the invariant.
LEMMA StepPreserves ==
  ASSUME IInv, [Next]_vars
  PROVE  IInv'
<1> USE DEF IInv
<1>t. VarTypes
  OBVIOUS
<1>1. ASSUME NEW c \in Commands, processCommandOperation(c) PROVE IInv'
  <2>1. thread[c].pc = "new" /\ UNCHANGED <<active, full, msg_waiting, command_sent, terminated, transmitted, handled, overtaken>>
    BY <1>1 DEF processCommandOperation, At, pathVars, rtuVars
  <2>2. \/ ThreadTo(c, "done", None) /\ Return(c, "refused")
        \/ ThreadTo(c, "send", active) /\ active \in Paths /\ UNCHANGED result
    BY <1>1, <1>t DEF processCommandOperation, VarTypes
  <2>3. QED
    BY <2>1, <2>2, ThreadMoves DEF Positions
<1>2. ASSUME NEW c \in Commands, SendCommand(c) PROVE IInv'
  <2>1. thread[c].pc = "send" /\ active \in Paths
    BY <1>2, <1>t DEF SendCommand, At, VarTypes
  <2>2. UNCHANGED <<active, full, command_sent, terminated, handled, overtaken>>
    BY <1>2 DEF SendCommand, pathVars
  <2>3. CASE full[active]
    <3>1. /\ ThreadTo(c, "done", active) /\ Return(c, "refused")
          /\ msg_waiting' = [msg_waiting EXCEPT ![active] = Append(@, c)]
          /\ UNCHANGED transmitted
      BY <1>2, <2>3 DEF SendCommand, AfterSend
    <3>2. QED
      BY <1>t, <2>1, <2>2, <3>1, QueueGrows
  <2>4. CASE ~full[active]
    <3>1. /\ ThreadTo(c, "register", active)
          /\ transmitted' = transmitted \cup {c}
          /\ UNCHANGED <<msg_waiting, result>>
      BY <1>2, <2>4 DEF SendCommand, AfterSend
    <3>2. QED
      BY <2>1, <2>2, <3>1, ThreadMoves DEF Positions
  <2>5. QED
    BY <2>3, <2>4
<1>3. ASSUME NEW c \in Commands, SendRefused(c) PROVE IInv'
  <2>1. thread[c].pc = "send" /\ thread[c].path \in Paths
    BY <1>3 DEF SendRefused, At, ThreadInv
  <2>2. /\ ThreadTo(c, "done", thread[c].path) /\ Return(c, "refused")
        /\ UNCHANGED <<active, full, msg_waiting, command_sent, terminated, transmitted, handled, overtaken>>
    BY <1>3 DEF SendRefused, AfterSend, pathVars, rtuVars
  <2>3. QED
    BY <2>1, <2>2, ThreadMoves DEF Positions
<1>4. ASSUME NEW c \in Commands, SendNowhere(c) PROVE IInv'
  BY <1>4, <1>t, PathsPreserve DEF SendNowhere, pathVars, rtuVars, VarTypes
<1>5. ASSUME NEW p \in Paths, PathActive(p) PROVE IInv'
  BY <1>5, <1>t, PathsPreserve DEF PathActive, rtuVars, VarTypes
<1>6. ASSUME NEW p \in Paths, DrainWindow(p) PROVE IInv'
  <2>1. /\ full' = [full EXCEPT ![p] = FALSE]
        /\ transmitted' = transmitted \cup Range(msg_waiting[p])
        /\ msg_waiting' = [msg_waiting EXCEPT ![p] = <<>>]
        /\ UNCHANGED <<active, command_sent, thread, result, terminated, handled, overtaken>>
    BY <1>6 DEF DrainWindow
  <2>2. \A c \in Range(msg_waiting[p]) : c \in Commands /\ thread[c].pc = "done"
    BY <1>t, Elements DEF QueuedInv, Range
  <2>3. <<>> \in Seq(Commands)
    BY EmptySeq
  <2>4. /\ msg_waiting' \in [Paths -> Seq(Commands)]
        /\ \A o \in Paths : msg_waiting'[o] = msg_waiting[o] \/ msg_waiting'[o] = <<>>
    BY <1>t, <2>1, <2>3 DEF VarTypes
  <2>5. transmitted' \subseteq Commands /\ full' \in [Paths -> BOOLEAN]
    BY <1>t, <2>1, <2>2 DEF VarTypes
  <2>6. QED
    BY <1>t, <2>1, <2>2, <2>4, <2>5, PathsPreserve DEF VarTypes
<1>7. CASE ActivePathLost
  <2>1. <<>> \in Seq(Commands) /\ active \in Paths
    BY <1>7, <1>t, EmptySeq DEF VarTypes, ActivePathLost
  <2>2. /\ msg_waiting' \in [Paths -> Seq(Commands)] /\ full' \in [Paths -> BOOLEAN]
        /\ \A o \in Paths : msg_waiting'[o] = msg_waiting[o] \/ msg_waiting'[o] = <<>>
    BY <1>7, <1>t, <2>1 DEF VarTypes, ActivePathLost
  <2>3. QED
    BY <1>7, <1>t, <2>2, PathsPreserve DEF ActivePathLost, rtuVars, VarTypes
<1>8. CASE FillWindow
  BY <1>8, <1>t, PathsPreserve DEF FillWindow, rtuVars, VarTypes
<1>9. CASE UNCHANGED vars
  BY <1>9, <1>t, PathsPreserve DEF vars, pathVars, rtuVars, VarTypes
<1>10. QED
  BY <1>1, <1>2, <1>3, <1>4, <1>5, <1>6, <1>7, <1>8, <1>9, RegisterPreserves, HandlePreserves, TimerPreserves
     DEF Next, Terminated

\* Initially no command was sent.
LEMMA InitEstablishes == Init => IInv
<1> SUFFICES ASSUME Init PROVE IInv
  OBVIOUS
<1>1. <<>> \in Seq(Commands) /\ DOMAIN <<>> = {}
  BY EmptySeq
<1>2. VarTypes
  BY <1>1 DEF Init, VarTypes, Positions
<1>3. ThreadInv
  BY DEF Init, ThreadInv
<1>4. QueuedInv /\ SentInv
  BY <1>1 DEF Init, QueuedInv, SentInv, IsInjective
<1>5. QED
  BY <1>2, <1>3, <1>4 DEF IInv

---------------------------------------------------------------------------
(* Theorems                                                                 *)

\* IInv holds in every state.
THEOREM Invariance == Spec => []IInv
<1>1. IInv /\ [Next]_vars => IInv'
  BY StepPreserves
<1>2. QED
  BY <1>1, InitEstablishes, PTL DEF Spec

\* Every variable has its type, and command_sent never holds more than one entry
\* per command: a thread registers its command once (m_registerCommandIfSent).
THEOREM TypeCorrectness == Spec => []TypeOK
<1>1. ASSUME IInv PROVE TypeOK
  <2>1. \A p \in Paths : Len(command_sent[p]) <= Cardinality(Commands)
    BY <1>1, DistinctIsShort DEF IInv, VarTypes, SentInv
  <2>2. QED
    BY <1>1, <2>1 DEF IInv, VarTypes, TypeOK
<1>2. QED
  BY <1>1, Invariance, PTL

\* A path waits for the acknowledgement of a command only if it was transmitted
\* and operation said so to the north.
THEOREM AwaitedCommandsWereSent == Spec => []AwaitedWasSent
<1>1. IInv => AwaitedWasSent
  BY DEF IInv, SentInv, Awaited, AwaitedWasSent, Range
<1>2. QED
  BY <1>1, Invariance, PTL

\* An acknowledgement that is handled after the registration of its command ends
\* the wait for it on every path, for every address the frame can hold.
THEOREM AcknowledgedCommandsLeave == Spec => []AcknowledgedIsNotAwaited
<1>1. IInv => AcknowledgedIsNotAwaited
  BY DEF IInv, SentInv, Awaited, AcknowledgedIsNotAwaited, Range
<1>2. QED
  BY <1>1, Invariance, PTL

=============================================================================
