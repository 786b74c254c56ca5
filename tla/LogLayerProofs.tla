--------------------------- MODULE LogLayerProofs ---------------------------
(***************************************************************************)
(* Proofs about module LogLayer, for any number of callers, log modules,   *)
(* levels, tables and losses.                                              *)
(***************************************************************************)
EXTENDS LogLayer, TLAPS

-----------------------------------------------------------------------------
(***************************************************************************)
(* Messages, and which of them a queue holds.                              *)
(***************************************************************************)

Requests ==
  [cmd : {"SRC"}] \cup [cmd : {"GET"}, module : Modules]
    \cup [cmd : {"SET"}, module : Modules, lvl : Levels]

Answers ==
  [cmd : {"SRC"}, lvls : [Modules -> Levels]]
    \cup [cmd : {"GET"}, module : Modules, lvl : Levels]

Srcs    == {x \in Requests \cup Answers : x.cmd = "SRC"}
Gets(m) == {x \in Requests \cup Answers : x.cmd = "GET" /\ x.module = m}
Sets(m) == {x \in Requests : x.cmd = "SET" /\ x.module = m}

\* The queue holds one of these messages; it holds at most one of them.
Holds(s, E) == \E i \in DOMAIN s : s[i] \in E
Once(s, E)  == \A i, j \in DOMAIN s : s[i] \in E /\ s[j] \in E => i = j

\* After the requests before place p, module m will have level l, if it has
\* level f now.
SeenAt(s, f, m, p, l) ==
  \/ \E i \in DOMAIN s :
       /\ i < p /\ s[i] \in Sets(m) /\ s[i].lvl = l
       /\ \A j \in DOMAIN s : i < j /\ j < p => s[j] \notin Sets(m)
  \/ /\ l = f
     /\ \A j \in DOMAIN s : j < p => s[j] \notin Sets(m)

-----------------------------------------------------------------------------
(***************************************************************************)
(* Queues.                                                                 *)
(***************************************************************************)

\* A message that is queued leaves the others in their places.
LEMMA AppendFacts ==
  ASSUME NEW S, NEW s \in Seq(S), NEW x \in S
  PROVE  /\ Append(s, x) \in Seq(S)
         /\ Len(s) \in Nat
         /\ DOMAIN s = 1..Len(s)
         /\ Len(Append(s, x)) = Len(s) + 1
         /\ DOMAIN Append(s, x) = 1..(Len(s) + 1)
         /\ \A i \in 1..Len(s) : Append(s, x)[i] = s[i]
         /\ Append(s, x)[Len(s) + 1] = x
         /\ Append(s, x) # <<>>
         /\ s # <<>> => Len(s) >= 1
         /\ s = <<>> => Len(s) = 0
  OBVIOUS

LEMMA EmptyFacts ==
  ASSUME NEW S, NEW s \in Seq(S)
  PROVE  s = <<>> <=> Len(s) = 0
  OBVIOUS

\* Taking the first message moves the others up by one.
LEMMA TailFacts ==
  ASSUME NEW S, NEW s \in Seq(S), s # <<>>
  PROVE  /\ Tail(s) \in Seq(S)
         /\ Head(s) \in S
         /\ Head(s) = s[1]
         /\ Len(s) \in Nat /\ Len(s) >= 1
         /\ DOMAIN s = 1..Len(s)
         /\ Len(Tail(s)) = Len(s) - 1
         /\ DOMAIN Tail(s) = 1..(Len(s) - 1)
         /\ \A i \in 1..(Len(s) - 1) : Tail(s)[i] = s[i + 1]
         /\ Tail(s) = <<>> <=> Len(s) = 1
<1>1. /\ Tail(s) \in Seq(S)
      /\ Head(s) \in S
      /\ Head(s) = s[1]
      /\ Len(s) \in Nat /\ Len(s) >= 1
      /\ DOMAIN s = 1..Len(s)
      /\ Len(Tail(s)) = Len(s) - 1
      /\ DOMAIN Tail(s) = 1..(Len(s) - 1)
      /\ \A i \in 1..(Len(s) - 1) : Tail(s)[i] = s[i + 1]
  OBVIOUS
<1>2. Tail(s) = <<>> <=> Len(Tail(s)) = 0
  BY <1>1, EmptyFacts
<1> QED BY <1>1, <1>2

\* What a queue holds when a message is added, or the first one taken.
LEMMA HoldsAppend ==
  ASSUME NEW S, NEW s \in Seq(S), NEW x \in S
  PROVE  \A E : /\ Holds(Append(s, x), E) <=> Holds(s, E) \/ x \in E
                /\ Once(s, E) /\ (x \in E => ~Holds(s, E))
                     => Once(Append(s, x), E)
<1>1. /\ Len(s) \in Nat
      /\ DOMAIN s = 1..Len(s)
      /\ DOMAIN Append(s, x) = 1..(Len(s) + 1)
      /\ \A i \in 1..Len(s) : Append(s, x)[i] = s[i]
      /\ Append(s, x)[Len(s) + 1] = x
  BY AppendFacts
<1> QED BY <1>1 DEF Holds, Once

LEMMA HoldsTail ==
  ASSUME NEW S, NEW s \in Seq(S), s # <<>>
  PROVE  \A E : /\ Holds(s, E) <=> Head(s) \in E \/ Holds(Tail(s), E)
                /\ Once(s, E) => Once(Tail(s), E)
                /\ Once(s, E) /\ Head(s) \in E => ~Holds(Tail(s), E)
<1>1. /\ Head(s) = s[1]
      /\ Len(s) \in Nat /\ Len(s) >= 1
      /\ DOMAIN s = 1..Len(s)
      /\ DOMAIN Tail(s) = 1..(Len(s) - 1)
      /\ \A i \in 1..(Len(s) - 1) : Tail(s)[i] = s[i + 1]
  BY TailFacts
<1> TAKE E
<1>2. Holds(s, E) => Head(s) \in E \/ Holds(Tail(s), E)
  <2> SUFFICES ASSUME NEW i \in 1..Len(s), s[i] \in E, i # 1
               PROVE  Holds(Tail(s), E)
    BY <1>1 DEF Holds
  <2>1. i - 1 \in 1..(Len(s) - 1) /\ Tail(s)[i - 1] = s[i]
    BY <1>1
  <2> QED BY <1>1, <2>1 DEF Holds
<1>3. Head(s) \in E \/ Holds(Tail(s), E) => Holds(s, E)
  BY <1>1 DEF Holds
<1>4. Once(s, E) => Once(Tail(s), E)
  BY <1>1 DEF Once
<1>5. Once(s, E) /\ Head(s) \in E => ~Holds(Tail(s), E)
  BY <1>1 DEF Once, Holds
<1> QED BY <1>2, <1>3, <1>4, <1>5

LEMMA HoldsEmpty ==
  \A E : ~Holds(<<>>, E) /\ Once(<<>>, E)
  BY DEF Holds, Once

\* The kinds of messages.
LEMMA RequestFacts ==
  ASSUME NEW r \in Requests
  PROVE  /\ r.cmd \in {"SRC", "GET", "SET"}
         /\ r \in Srcs <=> r.cmd = "SRC"
         /\ \A m \in Modules : r \in Gets(m) <=> r.cmd = "GET" /\ r.module = m
         /\ \A m \in Modules : r \in Sets(m) <=> r.cmd = "SET" /\ r.module = m
         /\ r.cmd # "SRC" => r.module \in Modules
         /\ r.cmd = "SET" => r.lvl \in Levels
  BY DEF Requests, Srcs, Gets, Sets

LEMMA AnswerFacts ==
  ASSUME NEW r \in Answers
  PROVE  /\ r.cmd \in {"SRC", "GET"}
         /\ r \in Srcs <=> r.cmd = "SRC"
         /\ \A m \in Modules : r \in Gets(m) <=> r.cmd = "GET" /\ r.module = m
         /\ r.cmd = "SRC" => r.lvls \in [Modules -> Levels]
         /\ r.cmd = "GET" => r.module \in Modules /\ r.lvl \in Levels
  BY DEF Answers, Srcs, Gets

\* What the model asks of a queue, in these terms.
LEMMA AskedFacts ==
  /\ tx \in Seq(Requests) => \A m \in Modules : Asked(tx, m) <=> Holds(tx, Gets(m))
  /\ rx \in Seq(Answers) => \A m \in Modules : Asked(rx, m) <=> Holds(rx, Gets(m))
<1>1. ASSUME tx \in Seq(Requests), NEW m \in Modules
      PROVE  Asked(tx, m) <=> Holds(tx, Gets(m))
  <2>1. \A i \in DOMAIN tx : tx[i] \in Requests
    BY <1>1
  <2> QED BY <2>1, RequestFacts DEF Asked, Holds
<1>2. ASSUME rx \in Seq(Answers), NEW m \in Modules
      PROVE  Asked(rx, m) <=> Holds(rx, Gets(m))
  <2>1. \A i \in DOMAIN rx : rx[i] \in Answers
    BY <1>2
  <2> QED BY <2>1, AnswerFacts DEF Asked, Holds
<1> QED BY <1>1, <1>2

-----------------------------------------------------------------------------
(***************************************************************************)
(* Types and the scopes of the local variables.                            *)
(***************************************************************************)

ReadPcs == {"arm", "send", "eval", "wait", "return"}

Args == [on : {0, 1}, module : Modules \cup {None}, table : 0..MaxTables]

Types ==
  /\ enabled \in BOOLEAN /\ again \in BOOLEAN /\ overlap \in BOOLEAN
  /\ log_modules \in 0..MaxTables
  /\ tables \in 0..MaxTables
  /\ freed \subseteq 1..MaxTables
  /\ entries \subseteq Modules
  /\ dentry \in [Modules -> 0..MaxTables]
  /\ read_done \in [1..MaxTables -> [Modules -> Callers \cup {None}]]
  /\ lvl \in [1..MaxTables -> [Modules -> Levels]]
  /\ cpc \in [Callers -> {"idle"} \cup EnablePcs \cup ReadPcs]
  /\ arg \in [Callers -> Args]
  /\ wait_on \in [Callers -> Callers \cup {None}]
  /\ done \in [Callers -> BOOLEAN]
  /\ tx \in Seq(Requests)
  /\ rx \in Seq(Answers)
  /\ fw_lvl \in [Modules -> Levels]
  /\ lost \in Nat
  /\ may_read \in [Callers -> SUBSET Levels]

\* What the steps do to the queues.
LEMMA Queued ==
  ASSUME Types, NEW r \in Requests, tx' = Append(tx, r)
  PROVE  /\ tx' \in Seq(Requests)
         /\ \A E : /\ Holds(tx', E) <=> Holds(tx, E) \/ r \in E
                   /\ Once(tx, E) /\ (r \in E => ~Holds(tx, E)) => Once(tx', E)
  BY AppendFacts, HoldsAppend DEF Types

LEMMA Transferred ==
  ASSUME Types, tx # <<>>, tx' = Tail(tx)
  PROVE  /\ tx' \in Seq(Requests)
         /\ Head(tx) \in Requests
         /\ \A E : /\ Holds(tx, E) <=> Head(tx) \in E \/ Holds(tx', E)
                   /\ Once(tx, E) => Once(tx', E)
                   /\ Once(tx, E) /\ Head(tx) \in E => ~Holds(tx', E)
  BY TailFacts, HoldsTail DEF Types

LEMMA Answered ==
  ASSUME Types, NEW a \in Answers, rx' = Append(rx, a)
  PROVE  /\ rx' \in Seq(Answers)
         /\ rx' # <<>>
         /\ rx # <<>> => Head(rx') = Head(rx)
         /\ \A E : /\ Holds(rx', E) <=> Holds(rx, E) \/ a \in E
                   /\ Once(rx, E) /\ (a \in E => ~Holds(rx, E)) => Once(rx', E)
<1>1. rx \in Seq(Answers)
  BY DEF Types
<1>2. rx # <<>> => Head(rx') = Head(rx)
  <2> SUFFICES ASSUME rx # <<>> PROVE Head(rx') = Head(rx)
    OBVIOUS
  <2>1. Head(rx) = rx[1] /\ Len(rx) >= 1 /\ Len(rx) \in Nat
    BY <1>1, TailFacts
  <2>2. rx'[1] = rx[1] /\ rx' # <<>> /\ rx' \in Seq(Answers)
    BY <1>1, <2>1, AppendFacts
  <2> QED BY <2>1, <2>2, TailFacts
<1> QED BY <1>1, <1>2, AppendFacts, HoldsAppend

LEMMA Received ==
  ASSUME Types, rx # <<>>, rx' = Tail(rx)
  PROVE  /\ rx' \in Seq(Answers)
         /\ Head(rx) \in Answers
         /\ \A E : /\ Holds(rx, E) <=> Head(rx) \in E \/ Holds(rx', E)
                   /\ Once(rx, E) => Once(rx', E)
                   /\ Once(rx, E) /\ Head(rx) \in E => ~Holds(rx', E)
  BY TailFacts, HoldsTail DEF Types

LEMMA Served ==
  ASSUME Types, FwServe
  PROVE  /\ tx # <<>> /\ tx' = Tail(tx) /\ Head(tx) \in Requests
         /\ \/ /\ Head(tx).cmd = "SRC" /\ fw_lvl' = fw_lvl
               /\ \E a \in Answers : a.cmd = "SRC" /\ rx' = Append(rx, a)
            \/ /\ Head(tx).cmd = "GET" /\ fw_lvl' = fw_lvl
               /\ Head(tx).module \in Modules
               /\ \E a \in Answers : /\ a.cmd = "GET" /\ a.module = Head(tx).module
                                     /\ a.lvl = fw_lvl[a.module]
                                     /\ rx' = Append(rx, a)
            \/ /\ Head(tx).cmd = "SET" /\ rx' = rx
               /\ Head(tx).module \in Modules /\ Head(tx).lvl \in Levels
               /\ fw_lvl' = [fw_lvl EXCEPT ![Head(tx).module] = Head(tx).lvl]
<1>1. tx # <<>> /\ tx' = Tail(tx) /\ Head(tx) \in Requests
  BY TailFacts DEF Types, FwServe
<1>2. /\ Head(tx).cmd \in {"SRC", "GET", "SET"}
      /\ Head(tx).cmd # "SRC" => Head(tx).module \in Modules
      /\ Head(tx).cmd = "SET" => Head(tx).lvl \in Levels
  BY <1>1, RequestFacts
<1>3. CASE Head(tx).cmd = "SRC"
  <2>1. [cmd |-> "SRC", lvls |-> fw_lvl] \in Answers
    BY DEF Types, Answers
  <2>2. rx' = Append(rx, [cmd |-> "SRC", lvls |-> fw_lvl]) /\ fw_lvl' = fw_lvl
    BY <1>3 DEF FwServe
  <2> QED BY <1>1, <1>3, <2>1, <2>2
<1>4. CASE Head(tx).cmd = "GET"
  <2> DEFINE a == [cmd |-> "GET", module |-> Head(tx).module,
                   lvl |-> fw_lvl[Head(tx).module]]
  <2>1. a \in Answers
    BY <1>2, <1>4 DEF Types, Answers
  <2>2. rx' = Append(rx, a) /\ fw_lvl' = fw_lvl
    BY <1>4 DEF FwServe
  <2>3. a.cmd = "GET" /\ a.module = Head(tx).module /\ a.lvl = fw_lvl[a.module]
    OBVIOUS
  <2> HIDE DEF a
  <2> QED BY <1>1, <1>2, <1>4, <2>1, <2>2, <2>3
<1>5. CASE Head(tx).cmd = "SET"
  <2>1. rx' = rx /\ fw_lvl' = [fw_lvl EXCEPT ![Head(tx).module] = Head(tx).lvl]
    BY <1>5 DEF FwServe
  <2> QED BY <1>1, <1>2, <1>5, <2>1
<1> QED BY <1>2, <1>3, <1>4, <1>5

LEMMA NewRequests ==
  /\ [cmd |-> "SRC"] \in Requests /\ [cmd |-> "SRC"].cmd = "SRC"
  /\ \A m \in Modules :
       LET r == [cmd |-> "GET", module |-> m]
       IN  r \in Requests /\ r.cmd = "GET" /\ r.module = m
  /\ \A m \in Modules, l \in Levels :
       LET r == [cmd |-> "SET", module |-> m, lvl |-> l]
       IN  r \in Requests /\ r.cmd = "SET" /\ r.module = m /\ r.lvl = l
  BY DEF Requests

\* A caller has a module exactly while it reads a level, through the file's
\* table, and a module that is asked about has its file.
Scoped ==
  /\ \A c \in Callers :
       /\ cpc[c] \in ReadPcs <=> arg[c].module # None
       /\ arg[c].module = None => arg[c].table = 0
       /\ arg[c].module # None => /\ arg[c].table = dentry[arg[c].module]
                                  /\ arg[c].table # 0
  /\ entries # {} => rx # <<>> /\ Head(rx) \in Srcs /\ log_modules # 0
  /\ \A m \in Modules :
       Holds(tx, Gets(m)) \/ Holds(rx, Gets(m)) => dentry[m] # 0

TypeInv == Types /\ Scoped

\* Between the two steps of parse_get_log_lvl_response the answer is still the
\* first one, and its module has its level.
StoredInv ==
  stored => /\ rx # <<>> /\ Head(rx).cmd = "GET" /\ entries = {}
            /\ log_modules # 0
            /\ lvl[log_modules][Head(rx).module] = Head(rx).lvl

\* The level that debug_log_level_read notes is the one that a request sent
\* now would see.
LEMMA LevelAfterFacts ==
  ASSUME Types, NEW m \in Modules
  PROVE  /\ LevelAfter(m) \in Levels
         /\ \A l : SeenAt(tx, fw_lvl[m], m, Len(tx) + 1, l) => l = LevelAfter(m)
<1>1. /\ \A i \in DOMAIN tx : tx[i] \in Requests
      /\ \A i \in DOMAIN tx : i \in Int /\ i < Len(tx) + 1
  BY DEF Types
<1>2. \A i \in DOMAIN tx : tx[i] \in Sets(m) <=> tx[i].cmd = "SET" /\ tx[i].module = m
  BY <1>1, RequestFacts
<1>3. \A i \in DOMAIN tx :
        LastSet(m, i) <=> /\ tx[i] \in Sets(m)
                          /\ \A j \in DOMAIN tx : tx[j] \in Sets(m) => j <= i
  BY <1>2 DEF LastSet
<1>4. CASE \E i \in DOMAIN tx : LastSet(m, i)
  <2> DEFINE i == CHOOSE j \in DOMAIN tx : LastSet(m, j)
  <2>1. i \in DOMAIN tx /\ LastSet(m, i) /\ LevelAfter(m) = tx[i].lvl
    BY <1>4 DEF LevelAfter
  <2> HIDE DEF i
  <2>2. tx[i].lvl \in Levels
    BY <1>1, <1>2, <1>3, <2>1, RequestFacts
  <2>3. ASSUME NEW l, SeenAt(tx, fw_lvl[m], m, Len(tx) + 1, l)
        PROVE  l = tx[i].lvl
    <3>1. ~\A j \in DOMAIN tx : j < Len(tx) + 1 => tx[j] \notin Sets(m)
      BY <1>1, <1>3, <2>1
    <3>2. PICK k \in DOMAIN tx :
            /\ tx[k] \in Sets(m) /\ tx[k].lvl = l
            /\ \A j \in DOMAIN tx : k < j /\ j < Len(tx) + 1 => tx[j] \notin Sets(m)
      BY <2>3, <3>1 DEF SeenAt
    <3>3. i = k
      BY <1>1, <1>3, <2>1, <3>2
    <3> QED BY <3>2, <3>3
  <2> QED BY <2>1, <2>2, <2>3
<1>5. CASE ~\E i \in DOMAIN tx : LastSet(m, i)
  <2>1. LevelAfter(m) = fw_lvl[m] /\ fw_lvl[m] \in Levels
    BY <1>5 DEF LevelAfter, Types
  <2>2. ASSUME NEW l, SeenAt(tx, fw_lvl[m], m, Len(tx) + 1, l), l # fw_lvl[m]
        PROVE  FALSE
    <3>1. PICK k \in DOMAIN tx :
            /\ tx[k] \in Sets(m)
            /\ \A j \in DOMAIN tx : k < j /\ j < Len(tx) + 1 => tx[j] \notin Sets(m)
      BY <2>2 DEF SeenAt
    <3>2. LastSet(m, k)
      BY <1>1, <1>3, <3>1
    <3> QED BY <1>5, <3>2
  <2> QED BY <2>1, <2>2
<1> QED BY <1>4, <1>5

\* The arguments of calls.
LEMMA ArgFacts ==
  /\ NoArg \in Args /\ NoArg.module = None /\ NoArg.table = 0
  /\ \A a \in Args : /\ a.on \in {0, 1} /\ a.module \in Modules \cup {None}
                     /\ a.table \in 0..MaxTables
<1>1. MaxTables \in Nat /\ 0 \in 0..MaxTables
  BY ConstantsAssumption
<1> QED BY <1>1 DEF NoArg, Args

LEMMA NewArgs ==
  /\ \A on \in {0, 1} :
       /\ [NoArg EXCEPT !.on = on] \in Args
       /\ [NoArg EXCEPT !.on = on].on = on
       /\ [NoArg EXCEPT !.on = on].module = None
       /\ [NoArg EXCEPT !.on = on].table = 0
  /\ \A m \in Modules, t \in 0..MaxTables :
       /\ [NoArg EXCEPT !.module = m, !.table = t] \in Args
       /\ [NoArg EXCEPT !.module = m, !.table = t].module = m
       /\ [NoArg EXCEPT !.module = m, !.table = t].table = t
<1>1. MaxTables \in Nat /\ 0 \in 0..MaxTables
  BY ConstantsAssumption
<1> QED BY <1>1 DEF NoArg, Args

LEMMA TypeInit == Init => TypeInv
<1> SUFFICES ASSUME Init PROVE TypeInv
  OBVIOUS
<1>1. Types
  <2>1. /\ 0 \in 0..MaxTables /\ tx \in Seq(Requests) /\ rx \in Seq(Answers)
        /\ arg \in [Callers -> Args]
    BY ConstantsAssumption, ArgFacts DEF Init
  <2> QED BY <2>1, ZenonT(60) DEF Init, Types, EnablePcs, ReadPcs
<1>2. Scoped
  BY HoldsEmpty, ArgFacts DEF Init, Scoped, EnablePcs, ReadPcs
<1> QED BY <1>1, <1>2 DEF TypeInv

\* Every step keeps the types and the scopes.
LEMMA TypeStep ==
  ASSUME TypeInv, StoredInv, [Next]_vars
  PROVE  TypeInv'
<1> USE DEF TypeInv
<1>n. None \notin Callers /\ None \notin Modules /\ MaxTables \in Nat \ {0}
  BY ConstantsAssumption
<1>1. ASSUME NEW c \in Callers, NEW on \in {0, 1}, log_enable_set(c, on)
      PROVE  TypeInv'
  <2> DEFINE a == [NoArg EXCEPT !.on = on]
  <2>0. /\ a \in Args /\ a.module = None /\ a.table = 0
        /\ arg' = [arg EXCEPT ![c] = a]
    BY <1>1, NewArgs DEF log_enable_set
  <2> HIDE DEF a
  <2>1. Types'
    BY <1>1, <2>0, ZenonT(60) DEF Types, log_enable_set, Goto, MayStart, EnablePcs,
       ReadPcs,
                      tableVars, wireVars
  <2>2. Scoped'
    BY <1>1, <2>0, ZenonT(60) DEF Types, Scoped, log_enable_set, Goto, MayStart, EnablePcs,
                      ReadPcs, tableVars, wireVars
  <2> QED BY <2>1, <2>2
<1>2. ASSUME NEW c \in Callers, NEW ok \in BOOLEAN, log_enable_send(c, ok)
      PROVE  TypeInv'
  <2>1. CASE ok
    <3>1. /\ tx' \in Seq(Requests)
          /\ \A m \in Modules : Holds(tx', Gets(m)) <=> Holds(tx, Gets(m))
      <4>1. tx' = Append(tx, [cmd |-> "SRC"])
        BY <1>2, <2>1, ArgFacts DEF log_enable_send
      <4> QED BY <4>1, NewRequests, RequestFacts, Queued
    <3>2. Types'
      BY <1>2, <2>1, <3>1, ArgFacts DEF Types, log_enable_send, Goto,
         EnablePcs, ReadPcs,
                              tableVars, histVars
    <3>3. Scoped'
      BY <1>2, <2>1, <3>1, ArgFacts DEF Types, Scoped, log_enable_send, Goto,
         EnablePcs,
                              ReadPcs, tableVars, histVars
    <3> QED BY <3>2, <3>3
  <2>2. CASE ~ok
    <3>2. Types'
      BY <1>2, <2>2, ArgFacts DEF Types, log_enable_send, Goto, EnablePcs,
         ReadPcs,
                              tableVars, histVars
    <3>3. Scoped'
      <4>1. /\ cpc' = [cpc EXCEPT ![c] = "idle"] /\ cpc[c] = "enable_send"
            /\ arg' = [arg EXCEPT ![c] = NoArg]
            /\ UNCHANGED <<tx, rx, tableVars>>
        BY <1>2, <2>2 DEF log_enable_send, Goto
      <4> QED BY <4>1, ArgFacts DEF Types, Scoped, EnablePcs, ReadPcs, tableVars
    <3> QED BY <3>2, <3>3
  <2> QED BY <2>1, <2>2
<1>3. ASSUME NEW c \in Callers, log_enable_store(c)
      PROVE  TypeInv'
  <2>1. Types'
    BY <1>3, ArgFacts DEF Types, log_enable_store, Goto, EnablePcs, ReadPcs,
                tableVars, wireVars, histVars
  <2>2. Scoped'
    BY <1>3, ArgFacts DEF Types, Scoped, log_enable_store, Goto, EnablePcs,
       ReadPcs,
                tableVars, wireVars, histVars
  <2> QED BY <2>1, <2>2
<1>4. ASSUME NEW c \in Callers, NEW m \in Modules, NEW l \in Levels,
             log_level_set(c, m, l)
      PROVE  TypeInv'
  <2>1. /\ tx' \in Seq(Requests)
        /\ \A n \in Modules : Holds(tx', Gets(n)) <=> Holds(tx, Gets(n))
    <3> DEFINE r == [cmd |-> "SET", module |-> m, lvl |-> l]
    <3>1. r \in Requests /\ r.cmd = "SET"
      BY NewRequests
    <3>2. tx' = Append(tx, r)
      BY <1>4 DEF log_level_set
    <3> HIDE DEF r
    <3> QED BY <3>1, <3>2, RequestFacts, Queued
  <2>2. Types'
    BY <1>4, <2>1 DEF Types, log_level_set, tableVars, callerVars
  <2>3. Scoped'
    BY <1>4, <2>1 DEF Types, Scoped, log_level_set, tableVars, callerVars
  <2> QED BY <2>2, <2>3
<1>5. ASSUME NEW c \in Callers, NEW m \in Modules, debug_log_level_read(c, m)
      PROVE  TypeInv'
  <2> DEFINE a == [NoArg EXCEPT !.module = m, !.table = dentry[m]]
  <2>0. /\ a \in Args /\ a.module = m /\ a.table = dentry[m]
        /\ arg' = [arg EXCEPT ![c] = a]
    BY <1>5, NewArgs DEF debug_log_level_read, Types
  <2> HIDE DEF a
  <2>1. LevelAfter(m) \in Levels
    BY LevelAfterFacts
  <2>2. Types'
    BY <1>5, <2>0, <2>1 DEF Types, debug_log_level_read, MayStart, Goto,
                      EnablePcs, ReadPcs, tableVars, wireVars
  <2>3. Scoped'
    BY <1>n, <1>5, <2>0 DEF Types, Scoped, debug_log_level_read, MayStart,
       Goto,
                      EnablePcs, ReadPcs, tableVars, wireVars
  <2> QED BY <2>2, <2>3
<1>6. ASSUME NEW c \in Callers, log_level_get_arm(c)
      PROVE  TypeInv'
  <2>1. Types'
    <3>1. arg[c].table \in 1..MaxTables /\ arg[c].module \in Modules
      BY <1>6, ArgFacts DEF Types, Scoped, log_level_get_arm, ReadPcs
    <3> QED BY <1>6, <3>1, ArgFacts DEF Types, log_level_get_arm, Goto, EnablePcs, ReadPcs,
                wireVars, histVars
  <2>2. Scoped'
    BY <1>6, ArgFacts DEF Types, Scoped, log_level_get_arm, Goto, EnablePcs,
       ReadPcs,
                wireVars, histVars
  <2> QED BY <2>1, <2>2
<1>7. ASSUME NEW c \in Callers, Return(c), cpc[c] \in ReadPcs,
             UNCHANGED <<enabled, tableVars, wireVars, again, overlap>>
      PROVE  TypeInv'
  <2>1. Types'
    BY <1>7, ArgFacts DEF Types, Return, Goto, EnablePcs, ReadPcs, tableVars,
       wireVars
  <2>2. Scoped'
    BY <1>7, ArgFacts DEF Types, Scoped, Return, Goto, EnablePcs, ReadPcs,
                tableVars, wireVars
  <2> QED BY <2>1, <2>2
<1>8. ASSUME NEW c \in Callers, log_level_get_send(c)
      PROVE  TypeInv'
  <2>0. arg[c].module \in Modules /\ dentry[arg[c].module] # 0
    BY <1>8, ArgFacts DEF Types, Scoped, log_level_get_send, ReadPcs
  <2>1. /\ tx' \in Seq(Requests)
        /\ \A n \in Modules :
             Holds(tx', Gets(n)) => Holds(tx, Gets(n)) \/ n = arg[c].module
    <3> DEFINE r == [cmd |-> "GET", module |-> arg[c].module]
    <3>1. r \in Requests /\ r.cmd = "GET" /\ r.module = arg[c].module
      BY <2>0, NewRequests
    <3>2. tx' = Append(tx, r)
      BY <1>8, ArgFacts DEF log_level_get_send
    <3> HIDE DEF r
    <3> QED BY <3>1, <3>2, RequestFacts, Queued
  <2>2. Types'
    BY <1>8, <2>1, ArgFacts DEF Types, log_level_get_send, Goto, EnablePcs,
       ReadPcs,
                      tableVars, histVars
  <2>3. Scoped'
    BY <1>8, <2>0, <2>1, ArgFacts DEF Types, Scoped, log_level_get_send, Goto,
       EnablePcs,
                      ReadPcs, tableVars, histVars
  <2> QED BY <2>2, <2>3
<1>9. ASSUME NEW c \in Callers, log_level_get_wait(c)
      PROVE  TypeInv'
  <2>0. arg[c].table \in 1..MaxTables /\ arg[c].module \in Modules
    BY <1>9, ArgFacts DEF Types, Scoped, log_level_get_wait, ReadPcs
  <2>1. Types'
    BY <1>9, <2>0, ArgFacts DEF Types, log_level_get_wait, Goto, EnablePcs,
       ReadPcs,
                tableVars, wireVars, histVars
  <2>2. Scoped'
    BY <1>9, ArgFacts DEF Types, Scoped, log_level_get_wait, Goto, EnablePcs,
       ReadPcs,
                tableVars, wireVars, histVars
  <2> QED BY <2>1, <2>2
<1>10. ASSUME NEW c \in Callers, wait_for_completion(c)
       PROVE  TypeInv'
  <2>1. Types'
    BY <1>10 DEF Types, wait_for_completion, Goto, EnablePcs, ReadPcs,
                tableVars, wireVars, histVars
  <2>2. Scoped'
    BY <1>10 DEF Types, Scoped, wait_for_completion, Goto, EnablePcs, ReadPcs,
                tableVars, wireVars, histVars
  <2> QED BY <2>1, <2>2
<1>11. CASE parse_get_log_lvl_response
  <2>1. rx # <<>> /\ rx' \in {rx, Tail(rx)} /\ entries = {} /\ Head(rx).cmd = "GET"
    BY <1>11 DEF parse_get_log_lvl_response, Receive
  <2>2. /\ rx' \in Seq(Answers)
        /\ \A n \in Modules : Holds(rx', Gets(n)) => Holds(rx, Gets(n))
        /\ Head(rx).module \in Modules /\ Head(rx).lvl \in Levels
    BY <2>1, Received, AnswerFacts DEF Types
  <2>3. lvl' \in [1..MaxTables -> [Modules -> Levels]]
    <3>1. CASE log_modules = 0
      BY <1>11, <3>1 DEF Types, parse_get_log_lvl_response
    <3>2. CASE log_modules # 0
      <4>1. log_modules \in 1..MaxTables
        BY <3>2 DEF Types
      <4>2. lvl' = [lvl EXCEPT ![log_modules][Head(rx).module] = Head(rx).lvl]
        BY <1>11, <3>2 DEF parse_get_log_lvl_response
      <4> QED BY <2>2, <4>1, <4>2 DEF Types
    <3> QED BY <3>1, <3>2
  <2>4. Types'
    BY <1>11, <2>2, <2>3 DEF Types, parse_get_log_lvl_response, callerVars,
       histVars
  <2>5. Scoped'
    BY <1>11, <2>1, <2>2 DEF Types, Scoped, parse_get_log_lvl_response,
       callerVars, histVars
  <2> QED BY <2>4, <2>5
<1>18. CASE complete_read_done
  <2>1. rx # <<>> /\ rx' = Tail(rx) /\ entries = {}
    BY <1>18 DEF complete_read_done, StoredInv
  <2>2. /\ rx' \in Seq(Answers)
        /\ \A n \in Modules : Holds(rx', Gets(n)) => Holds(rx, Gets(n))
    BY <2>1, Received
  <2>3. done' \in [Callers -> BOOLEAN]
    BY <1>18 DEF Types, complete_read_done
  <2>4. Types'
    BY <1>18, <2>2, <2>3 DEF Types, complete_read_done, histVars
  <2>5. Scoped'
    BY <1>18, <2>1, <2>2 DEF Types, Scoped, complete_read_done, histVars
  <2> QED BY <2>4, <2>5
<1>12. ASSUME NEW ok \in BOOLEAN, parse_log_sources_response(ok)
       PROVE  TypeInv'
  <2>1. rx # <<>> /\ rx' \in {rx, Tail(rx)} /\ Head(rx).cmd = "SRC"
    BY <1>12 DEF parse_log_sources_response, Receive
  <2>2. /\ rx' \in Seq(Answers)
        /\ \A n \in Modules : Holds(rx', Gets(n)) => Holds(rx, Gets(n))
        /\ Head(rx) \in Srcs
    <3>1. Head(rx) \in Srcs
      BY <2>1, TailFacts, AnswerFacts DEF Types
    <3> QED BY <2>1, <3>1, Received DEF Types
  <2>3. Types'
    BY <1>n, <1>12, <2>2 DEF Types, parse_log_sources_response, callerVars,
       histVars
  <2>4. Scoped'
    <3>1. entries = {}
      BY <1>12 DEF parse_log_sources_response, Receive
    <3>2. entries' # {} => rx' = rx /\ log_modules' # 0
      BY <1>12, <3>1 DEF parse_log_sources_response, Types
    <3> QED BY <1>12, <2>1, <2>2, <3>2 DEF Types, Scoped,
                  parse_log_sources_response, callerVars, histVars
  <2> QED BY <2>3, <2>4
<1>13. ASSUME NEW m \in Modules, debug_create_module_entry(m)
       PROVE  TypeInv'
  <2>1. rx # <<>> /\ Head(rx) \in Srcs /\ log_modules # 0 /\ rx' \in {rx, Tail(rx)}
    BY <1>13 DEF debug_create_module_entry, Scoped
  <2>2. /\ rx' \in Seq(Answers)
        /\ \A n \in Modules : Holds(rx', Gets(n)) => Holds(rx, Gets(n))
        /\ Head(rx).lvls \in [Modules -> Levels]
    <3>1. Head(rx).lvls \in [Modules -> Levels]
      BY <2>1, TailFacts, AnswerFacts DEF Types
    <3> QED BY <2>1, <3>1, Received DEF Types
  <2>3. Types'
    BY <1>13, <2>1, <2>2 DEF Types, debug_create_module_entry, callerVars,
       histVars
  <2>4. Scoped'
    BY <1>13, <2>1, <2>2 DEF Types, Scoped, debug_create_module_entry,
       callerVars,
                             histVars
  <2> QED BY <2>3, <2>4
<1>14. CASE FwServe
  <2>1. /\ tx' \in Seq(Requests)
        /\ \A n \in Modules :
             Holds(tx, Gets(n)) <=> Head(tx) \in Gets(n) \/ Holds(tx', Gets(n))
    BY <1>14, Served, Transferred
  <2> DEFINE Moved ==
        /\ rx' \in Seq(Answers)
        /\ \A n \in Modules :
             Holds(rx', Gets(n)) => Holds(rx, Gets(n)) \/ Head(tx) \in Gets(n)
        /\ rx # <<>> => rx' # <<>> /\ Head(rx') = Head(rx)
        /\ fw_lvl' \in [Modules -> Levels]
  <2>2. Moved
    <3>1. CASE rx' = rx
      BY <1>14, <3>1, Served DEF Types
    <3>2. ASSUME NEW a \in Answers, rx' = Append(rx, a), a.cmd = Head(tx).cmd,
                 a.cmd = "GET" => a.module = Head(tx).module, fw_lvl' = fw_lvl
          PROVE  Moved
      <4>1. \A n \in Modules : a \in Gets(n) => Head(tx) \in Gets(n)
        BY <1>14, <3>2, Served, AnswerFacts, RequestFacts
      <4> QED BY <3>2, <4>1, Answered DEF Types
    <3> HIDE DEF Moved
    <3> QED BY <1>14, <3>1, <3>2, Served
  <2>3. Types'
    BY <1>14, <2>1, <2>2 DEF Types, FwServe, tableVars, callerVars, histVars
  <2>4. Scoped'
    BY <1>14, <2>1, <2>2 DEF Types, Scoped, FwServe, tableVars, callerVars,
       histVars
  <2> QED BY <2>3, <2>4
<1>15. CASE LoseRequest
  <2>1. /\ tx' \in Seq(Requests)
        /\ \A n \in Modules : Holds(tx', Gets(n)) => Holds(tx, Gets(n))
        /\ Head(tx) \in Requests
    BY <1>15, Transferred DEF LoseRequest
  <2>2. \A c \in Callers : Head(tx).cmd = "SET" /\ arg[c].module = Head(tx).module
                             => fw_lvl[arg[c].module] \in Levels
    BY <2>1, RequestFacts DEF Types
  <2>3. Types'
    BY <1>15, <2>1, <2>2 DEF Types, LoseRequest, tableVars, callerVars
  <2>4. Scoped'
    BY <1>15, <2>1 DEF Types, Scoped, LoseRequest, tableVars, callerVars
  <2> QED BY <2>3, <2>4
<1>16. CASE LoseAnswer
  <2>1. /\ rx' \in Seq(Answers)
        /\ \A n \in Modules : Holds(rx', Gets(n)) => Holds(rx, Gets(n))
    BY <1>16, Received DEF LoseAnswer
  <2>2. Types'
    BY <1>16, <2>1 DEF Types, LoseAnswer, tableVars, callerVars, histVars
  <2>3. Scoped'
    BY <1>16, <2>1 DEF Types, Scoped, LoseAnswer, tableVars, callerVars,
       histVars
  <2> QED BY <2>2, <2>3
<1>17. CASE UNCHANGED vars
  BY <1>17 DEF Types, Scoped, vars, tableVars, callerVars, wireVars, histVars
<1> QED
  BY <1>1, <1>2, <1>3, <1>4, <1>5, <1>6, <1>7, <1>8, <1>9, <1>10, <1>11, <1>12,
     <1>13, <1>14, <1>15, <1>16, <1>17, <1>18
  DEF Next, Caller, CallRuns, Thread, Firmware, ReadPcs,
      log_level_get_refused, log_level_get_return

\* Only the thread takes an answer off the queue, changes a level or a table,
\* and it does none of this between the two steps.
LEMMA StoredStep ==
  ASSUME TypeInv, StoredInv, [Next]_vars
  PROVE  StoredInv'
<1>1. CASE UNCHANGED <<tableVars, rx>>
  BY <1>1 DEF StoredInv, tableVars
<1>2. ASSUME NEW c \in Callers, Caller(c)
      PROVE  UNCHANGED <<log_modules, entries, stored, lvl, rx>>
  BY <1>2 DEF Caller, CallRuns, log_enable_set, log_level_set,
     debug_log_level_read, log_enable_send, log_enable_store, log_level_get_arm,
     log_level_get_refused, log_level_get_send, log_level_get_wait,
     wait_for_completion, log_level_get_return, tableVars, wireVars
<1>3. CASE parse_get_log_lvl_response
  <2>1. CASE log_modules = 0
    BY <1>3, <2>1 DEF parse_get_log_lvl_response, Receive, StoredInv
  <2>2. CASE log_modules # 0
    <3>1. /\ rx # <<>> /\ Head(rx).cmd = "GET" /\ entries = {}
          /\ lvl' = [lvl EXCEPT ![log_modules][Head(rx).module] = Head(rx).lvl]
          /\ UNCHANGED <<rx, log_modules, entries>>
      BY <1>3, <2>2 DEF parse_get_log_lvl_response, Receive
    <3>2. log_modules \in 1..MaxTables /\ Head(rx).module \in Modules
      BY <2>2, <3>1, TailFacts, AnswerFacts DEF TypeInv, Types
    <3>3. lvl'[log_modules][Head(rx).module] = Head(rx).lvl
      BY <3>1, <3>2 DEF TypeInv, Types
    <3> QED BY <2>2, <3>1, <3>3 DEF StoredInv
  <2> QED BY <2>1, <2>2
<1>4. CASE complete_read_done
  BY <1>4 DEF complete_read_done, StoredInv
<1>5. ASSUME NEW ok \in BOOLEAN, parse_log_sources_response(ok)
      PROVE  StoredInv'
  BY <1>5 DEF parse_log_sources_response, Receive, StoredInv
<1>6. ASSUME NEW m \in Modules, debug_create_module_entry(m)
      PROVE  StoredInv'
  BY <1>6 DEF debug_create_module_entry, StoredInv
<1>7. CASE FwServe
  <2>1. UNCHANGED <<log_modules, entries, stored, lvl>>
    BY <1>7 DEF FwServe, tableVars
  <2>2. rx # <<>> => rx' # <<>> /\ Head(rx') = Head(rx)
    BY <1>7, Served, Answered DEF TypeInv
  <2> QED BY <2>1, <2>2 DEF StoredInv
<1>8. CASE LoseRequest
  BY <1>1, <1>8 DEF LoseRequest
<1>9. CASE LoseAnswer
  BY <1>9 DEF LoseAnswer, StoredInv, tableVars
<1>10. CASE UNCHANGED vars
  BY <1>1, <1>10 DEF vars, wireVars
<1> QED
  BY <1>2, <1>3, <1>4, <1>5, <1>6, <1>7, <1>8, <1>9, <1>10
  DEF Next, Thread, Firmware, StoredInv

-----------------------------------------------------------------------------
(***************************************************************************)
(* The log sources are asked for once: one caller is between the test of   *)
(* enabled and the store, one request or one answer is on its way, and     *)
(* only its answer makes the table.                                        *)
(***************************************************************************)

OneEnable ==
  /\ \A c \in Callers :
       cpc[c] \in EnablePcs => arg[c].on = 1 /\ ~enabled
  /\ \A c, d \in Callers : cpc[c] \in EnablePcs /\ cpc[d] \in EnablePcs => c = d
  /\ Holds(tx, Srcs) \/ Holds(rx, Srcs) \/ tables # 0 =>
       enabled \/ \E c \in Callers : cpc[c] = "enable_store"

OneTable ==
  /\ Once(tx, Srcs) /\ Once(rx, Srcs)
  /\ ~(Holds(tx, Srcs) /\ Holds(rx, Srcs))
  /\ Holds(tx, Srcs) => tables = 0
  /\ Holds(rx, Srcs) => tables = 0 \/ entries # {}
  /\ tables \in {0, 1} /\ log_modules = tables /\ freed = {}
  /\ \A m \in Modules : dentry[m] # 0 => dentry[m] = tables
  /\ \A m \in entries : dentry[m] = 0

SourceInv == ~again => OneEnable /\ OneTable

LEMMA SourceInit == Init => SourceInv
  BY HoldsEmpty DEF Init, SourceInv, OneEnable, OneTable, EnablePcs

\* Once the log sources may be asked for twice, that stays so; and so does an
\* overlap.
LEMMA HistoryGrows ==
  ASSUME TypeInv, [Next]_vars
  PROVE  (again => again') /\ (overlap => overlap')
<1>1. CASE UNCHANGED <<again, overlap>>
  BY <1>1
<1>2. ASSUME NEW c \in Callers, NEW on \in {0, 1}, log_enable_set(c, on)
      PROVE  (again => again') /\ (overlap => overlap')
  BY <1>2 DEF log_enable_set
<1>3. ASSUME NEW c \in Callers, NEW m \in Modules, debug_log_level_read(c, m)
      PROVE  (again => again') /\ (overlap => overlap')
  BY <1>3 DEF debug_log_level_read
<1>4. CASE UNCHANGED vars
  BY <1>4 DEF vars, histVars
<1>5. ASSUME NEW c \in Callers, CallRuns(c)
      PROVE  UNCHANGED <<again, overlap>>
  BY <1>5 DEF CallRuns, log_enable_send, log_enable_store, log_level_get_arm,
     log_level_get_refused, log_level_get_send, log_level_get_wait,
     wait_for_completion, log_level_get_return, histVars
<1>6. ASSUME Thread \/ Firmware
      PROVE  UNCHANGED <<again, overlap>>
  BY <1>6 DEF Thread, Firmware, parse_get_log_lvl_response,
     complete_read_done, parse_log_sources_response, debug_create_module_entry, FwServe, LoseRequest,
     LoseAnswer, histVars
<1>7. ASSUME NEW c \in Callers, NEW m \in Modules, NEW l \in Levels,
             log_level_set(c, m, l)
      PROVE  UNCHANGED <<again, overlap>>
  BY <1>7 DEF log_level_set
<1> QED BY <1>1, <1>2, <1>3, <1>4, <1>5, <1>6, <1>7 DEF Next, Caller

\* Steps that neither write to enable nor make or fill a table.
LEMMA SourceFrame ==
  ASSUME OneEnable, OneTable,
         UNCHANGED <<enabled, tables, log_modules, freed, entries, dentry>>,
         \A d \in Callers : \/ cpc'[d] = cpc[d] /\ arg'[d] = arg[d]
                            \/ cpc[d] \notin EnablePcs /\ cpc'[d] \notin EnablePcs,
         Holds(tx', Srcs) => Holds(tx, Srcs),
         Holds(rx', Srcs) => Holds(rx, Srcs),
         Once(tx', Srcs), Once(rx', Srcs)
  PROVE  OneEnable' /\ OneTable'
<1>1. OneEnable'
  BY DEF OneEnable, EnablePcs
<1>2. OneTable'
  BY DEF OneTable
<1> QED BY <1>1, <1>2

LEMMA SourceStep ==
  ASSUME TypeInv, StoredInv, SourceInv, [Next]_vars
  PROVE  SourceInv'
<1> SUFFICES ASSUME ~again' PROVE OneEnable' /\ OneTable'
  BY DEF SourceInv
<1>0. OneEnable /\ OneTable /\ ~again
  BY HistoryGrows DEF SourceInv
<1>t. Types /\ Scoped
  BY DEF TypeInv
<1>o. /\ Once(tx, Srcs) /\ Once(rx, Srcs)
      /\ ~(Holds(tx, Srcs) /\ Holds(rx, Srcs))
  BY <1>0 DEF OneTable
<1>1. ASSUME NEW c \in Callers, NEW on \in {0, 1}, log_enable_set(c, on)
      PROVE  OneEnable' /\ OneTable'
  <2> DEFINE a == [NoArg EXCEPT !.on = on]
  <2>0. a.on = on /\ arg' = [arg EXCEPT ![c] = a]
    BY <1>1, NewArgs DEF log_enable_set
  <2> HIDE DEF a
  <2>1. /\ on = 1 /\ \A d \in Callers : cpc[d] \notin EnablePcs
        /\ cpc' = [cpc EXCEPT ![c] = "enable_send"] /\ ~enabled
        /\ UNCHANGED <<enabled, tableVars, tx, rx>>
    BY <1>1 DEF log_enable_set, Goto, wireVars
  <2>2. OneEnable'
    BY <1>0, <1>t, <2>0, <2>1 DEF OneEnable, Types, EnablePcs, tableVars
  <2>3. OneTable'
    BY <1>0, <2>1 DEF OneTable, tableVars
  <2> QED BY <2>2, <2>3
<1>2. ASSUME NEW c \in Callers, NEW ok \in BOOLEAN, log_enable_send(c, ok)
      PROVE  OneEnable' /\ OneTable'
  <2>1. CASE ok
    <3>1. tx' = Append(tx, [cmd |-> "SRC"])
      BY <1>2, <2>1 DEF log_enable_send
    <3>2. /\ Once(tx, Srcs) /\ ~Holds(tx, Srcs) => Once(tx', Srcs)
          /\ Holds(tx', Srcs)
      BY <1>t, <3>1, NewRequests, RequestFacts, Queued
    <3>3. /\ cpc' = [cpc EXCEPT ![c] = "enable_store"] /\ cpc[c] = "enable_send"
          /\ UNCHANGED <<enabled, tableVars, arg, rx>>
      BY <1>2, <2>1 DEF log_enable_send, Goto
    <3>4. /\ ~enabled /\ \A d \in Callers : cpc[d] \in EnablePcs => d = c
          /\ ~Holds(tx, Srcs) /\ ~Holds(rx, Srcs) /\ tables = 0
      BY <1>0, <3>3 DEF OneEnable, EnablePcs
    <3>5. OneEnable'
      BY <1>0, <1>t, <3>3, <3>4 DEF OneEnable, Types, EnablePcs, tableVars
    <3>6. OneTable'
      BY <1>0, <3>2, <3>3, <3>4 DEF OneTable, tableVars
    <3> QED BY <3>5, <3>6
  <2>2. CASE ~ok
    <3>1. /\ cpc' = [cpc EXCEPT ![c] = "idle"] /\ cpc[c] = "enable_send"
          /\ arg' = [arg EXCEPT ![c] = NoArg]
          /\ UNCHANGED <<enabled, tableVars, tx, rx>>
      BY <1>2, <2>2 DEF log_enable_send, Goto
    <3>2. OneEnable'
      BY <1>0, <1>t, <3>1 DEF OneEnable, Types, EnablePcs, tableVars
    <3>3. OneTable'
      BY <1>0, <3>1 DEF OneTable, tableVars
    <3> QED BY <3>2, <3>3
  <2> QED BY <2>1, <2>2
<1>3. ASSUME NEW c \in Callers, log_enable_store(c)
      PROVE  OneEnable' /\ OneTable'
  <2>1. /\ cpc' = [cpc EXCEPT ![c] = "idle"] /\ cpc[c] = "enable_store"
        /\ enabled' = (arg[c].on = 1)
        /\ UNCHANGED <<tableVars, tx, rx>>
    BY <1>3 DEF log_enable_store, Goto, wireVars
  <2>2. enabled' /\ \A d \in Callers : cpc[d] \in EnablePcs => d = c
    BY <1>0, <2>1 DEF OneEnable, EnablePcs
  <2>3. OneEnable'
    BY <1>t, <2>1, <2>2 DEF OneEnable, Types, EnablePcs
  <2>4. OneTable'
    BY <1>0, <2>1 DEF OneTable, tableVars
  <2> QED BY <2>3, <2>4
<1>4. ASSUME NEW c \in Callers, NEW m \in Modules, NEW l \in Levels,
             log_level_set(c, m, l)
      PROVE  OneEnable' /\ OneTable'
  <2> DEFINE r == [cmd |-> "SET", module |-> m, lvl |-> l]
  <2>1. r \in Requests /\ r \notin Srcs
    <3>1. r \in Requests /\ r.cmd = "SET"
      BY NewRequests
    <3> HIDE DEF r
    <3> QED BY <3>1, RequestFacts
  <2>2. tx' = Append(tx, r) /\ UNCHANGED <<enabled, tableVars, callerVars, rx>>
    BY <1>4 DEF log_level_set
  <2> HIDE DEF r
  <2>3. Once(tx', Srcs) /\ (Holds(tx', Srcs) => Holds(tx, Srcs))
    BY <1>o, <1>t, <2>1, <2>2, Queued
  <2> QED BY <1>0, <1>o, <2>2, <2>3, SourceFrame DEF tableVars, callerVars
<1>5. ASSUME NEW c \in Callers, NEW m \in Modules, debug_log_level_read(c, m)
      PROVE  OneEnable' /\ OneTable'
  <2>1. /\ UNCHANGED <<enabled, tableVars, tx, rx>>
        /\ \A d \in Callers : \/ cpc'[d] = cpc[d] /\ arg'[d] = arg[d]
                              \/ cpc[d] \notin EnablePcs /\ cpc'[d] \notin EnablePcs
    BY <1>5, <1>t DEF debug_log_level_read, MayStart, Goto, EnablePcs, Types,
       wireVars
  <2> QED BY <1>0, <1>o, <2>1, SourceFrame DEF tableVars
<1>6. ASSUME NEW c \in Callers, \/ log_level_get_arm(c) \/ log_level_get_wait(c)
                                \/ wait_for_completion(c)
      PROVE  OneEnable' /\ OneTable'
  <2>1. /\ UNCHANGED <<enabled, tables, log_modules, freed, entries, dentry, tx, rx>>
        /\ \A d \in Callers : \/ cpc'[d] = cpc[d] /\ arg'[d] = arg[d]
                              \/ cpc[d] \notin EnablePcs /\ cpc'[d] \notin EnablePcs
    BY <1>6, <1>t DEF log_level_get_arm, log_level_get_wait,
       wait_for_completion,
                      Goto, EnablePcs, Types, wireVars, tableVars
  <2> QED BY <1>0, <1>o, <2>1, SourceFrame
<1>7. ASSUME NEW c \in Callers, Return(c), cpc[c] \in ReadPcs,
             UNCHANGED <<enabled, tableVars, wireVars, again, overlap>>
      PROVE  OneEnable' /\ OneTable'
  <2>1. /\ UNCHANGED <<enabled, tableVars, tx, rx>>
        /\ \A d \in Callers : \/ cpc'[d] = cpc[d] /\ arg'[d] = arg[d]
                              \/ cpc[d] \notin EnablePcs /\ cpc'[d] \notin EnablePcs
    BY <1>7, <1>t DEF Return, Goto, EnablePcs, ReadPcs, Types, wireVars
  <2> QED BY <1>0, <1>o, <2>1, SourceFrame DEF tableVars
<1>8. ASSUME NEW c \in Callers, log_level_get_send(c)
      PROVE  OneEnable' /\ OneTable'
  <2> DEFINE r == [cmd |-> "GET", module |-> arg[c].module]
  <2>1. r \in Requests /\ r \notin Srcs
    <3>1. arg[c].module \in Modules
      BY <1>8, <1>t, ArgFacts DEF Types, Scoped, log_level_get_send, ReadPcs
    <3>2. r \in Requests /\ r.cmd = "GET"
      BY <3>1, NewRequests
    <3> HIDE DEF r
    <3> QED BY <3>2, RequestFacts
  <2>2. /\ tx' = Append(tx, r) /\ UNCHANGED <<enabled, tableVars, rx>>
        /\ \A d \in Callers : \/ cpc'[d] = cpc[d] /\ arg'[d] = arg[d]
                              \/ cpc[d] \notin EnablePcs /\ cpc'[d] \notin EnablePcs
    BY <1>8, <1>t DEF log_level_get_send, Goto, Types, EnablePcs
  <2> HIDE DEF r
  <2>3. Once(tx', Srcs) /\ (Holds(tx', Srcs) => Holds(tx, Srcs))
    BY <1>o, <1>t, <2>1, <2>2, Queued
  <2> QED BY <1>0, <1>o, <2>2, <2>3, SourceFrame DEF tableVars
<1>9. CASE parse_get_log_lvl_response \/ complete_read_done \/ LoseAnswer
  <2>1. /\ rx # <<>> /\ rx' \in {rx, Tail(rx)}
        /\ UNCHANGED <<enabled, tables, log_modules, freed, entries, dentry, tx,
                       cpc, arg>>
    BY <1>9 DEF parse_get_log_lvl_response, complete_read_done, StoredInv,
       Receive, LoseAnswer, tableVars, callerVars
  <2>2. Once(rx', Srcs) /\ (Holds(rx', Srcs) => Holds(rx, Srcs))
    <3>1. CASE rx' = rx
      BY <1>o, <3>1
    <3>2. CASE rx' = Tail(rx)
      BY <1>o, <1>t, <2>1, <3>2, Received
    <3> QED BY <2>1, <3>1, <3>2
  <2> QED BY <1>0, <1>o, <2>1, <2>2, SourceFrame
<1>10. ASSUME NEW ok \in BOOLEAN, parse_log_sources_response(ok)
       PROVE  OneEnable' /\ OneTable'
  <2>1. /\ rx # <<>> /\ Head(rx).cmd = "SRC" /\ entries = {}
        /\ UNCHANGED <<enabled, dentry, cpc, arg, tx>>
        /\ rx' \in {rx, Tail(rx)}
    BY <1>10 DEF parse_log_sources_response, Receive, callerVars
  <2>2. Head(rx) \in Srcs
    BY <1>t, <2>1, TailFacts, AnswerFacts DEF Types
  <2>3. /\ Holds(rx, Srcs)
        /\ Once(rx', Srcs)
        /\ rx' = Tail(rx) => ~Holds(rx', Srcs)
    <3>1. CASE rx' = Tail(rx)
      BY <1>o, <1>t, <2>1, <2>2, <3>1, Received
    <3>2. CASE rx' = rx
      <4>1. Holds(rx, Srcs) /\ (Once(rx, Srcs) => ~Holds(Tail(rx), Srcs))
        BY <1>t, <2>1, <2>2, HoldsTail DEF Types
      <4> QED BY <1>o, <3>2, <4>1
    <3> QED BY <2>1, <3>1, <3>2
  <2>4. /\ ~Holds(tx, Srcs) /\ tables = 0 /\ log_modules = 0 /\ freed = {}
        /\ \A m \in Modules : dentry[m] = 0
    BY <1>0, <1>o, <2>1, <2>3 DEF OneTable
  <2>5. OneEnable'
    BY <1>0, <2>1, <2>3 DEF OneEnable
  <2>6. CASE ok
    <3>1. /\ tables' = 1 /\ log_modules' = 1 /\ freed' = {} /\ entries' = Modules
          /\ Modules = {} => rx' = Tail(rx)
      BY <1>10, <2>4, <2>6 DEF parse_log_sources_response
    <3> QED BY <1>o, <2>1, <2>3, <2>4, <2>5, <3>1 DEF OneTable
  <2>7. CASE ~ok
    <3>1. /\ tables' = 0 /\ log_modules' = 0 /\ freed' = {} /\ entries' = {}
          /\ rx' = Tail(rx)
      BY <1>10, <2>1, <2>4, <2>7 DEF parse_log_sources_response
    <3> QED BY <1>o, <2>1, <2>3, <2>4, <2>5, <3>1 DEF OneTable
  <2> QED BY <2>6, <2>7
<1>11. ASSUME NEW m \in Modules, debug_create_module_entry(m)
       PROVE  OneEnable' /\ OneTable'
  <2>1. /\ m \in entries /\ entries' = entries \ {m}
        /\ dentry' = IF dentry[m] = 0 THEN [dentry EXCEPT ![m] = log_modules]
                                      ELSE dentry
        /\ rx' = IF entries' = {} THEN Tail(rx) ELSE rx
        /\ UNCHANGED <<enabled, log_modules, tables, freed, cpc, arg, tx>>
    BY <1>11 DEF debug_create_module_entry, callerVars
  <2>2. rx # <<>> /\ Head(rx) \in Srcs
    BY <1>t, <2>1 DEF Scoped
  <2>3. /\ Holds(rx, Srcs) /\ Once(rx', Srcs)
        /\ entries' = {} => ~Holds(rx', Srcs)
    <3>1. Holds(rx, Srcs)
      BY <1>t, <2>2, HoldsTail DEF Types
    <3>2. CASE entries' = {}
      BY <1>o, <1>t, <2>1, <2>2, <3>1, <3>2, Received
    <3>3. CASE entries' # {}
      BY <1>o, <2>1, <3>1, <3>3
    <3> QED BY <3>2, <3>3
  <2>4. OneEnable'
    BY <1>0, <2>1, <2>3 DEF OneEnable
  <2>5. ~Holds(tx, Srcs)
    BY <1>o, <2>3
  <2>6. OneTable'
    BY <1>0, <1>o, <1>t, <2>1, <2>3, <2>5 DEF OneTable, Types
  <2> QED BY <2>4, <2>6
<1>12. CASE FwServe
  <2>1. /\ UNCHANGED <<enabled, tables, log_modules, freed, entries, dentry, cpc, arg>>
        /\ tx # <<>> /\ tx' = Tail(tx) /\ Head(tx) \in Requests
    BY <1>12, <1>t, Served DEF FwServe, tableVars, callerVars
  <2>2. /\ Holds(tx, Srcs) <=> Head(tx) \in Srcs \/ Holds(tx', Srcs)
        /\ Once(tx', Srcs)
        /\ Head(tx) \in Srcs => ~Holds(tx', Srcs)
    BY <1>o, <1>t, <2>1, Transferred
  <2>3. CASE Head(tx).cmd = "SRC"
    <3>1. PICK a \in Answers : a.cmd = "SRC" /\ rx' = Append(rx, a)
      BY <1>12, <1>t, <2>3, Served
    <3>2. Head(tx) \in Srcs
      BY <2>1, <2>3, RequestFacts
    <3>3. Holds(tx, Srcs) /\ ~Holds(tx', Srcs) /\ ~Holds(rx, Srcs)
      BY <1>o, <2>2, <3>2
    <3>4. Once(rx', Srcs)
      BY <1>o, <1>t, <3>1, <3>3, Answered
    <3>5. OneEnable'
      BY <1>0, <2>1, <3>3 DEF OneEnable
    <3>6. OneTable'
      BY <1>0, <2>1, <2>2, <3>3, <3>4 DEF OneTable
    <3> QED BY <3>5, <3>6
  <2>4. CASE Head(tx).cmd # "SRC"
    <3>1. Once(rx', Srcs) /\ (Holds(rx', Srcs) => Holds(rx, Srcs))
      <4>1. CASE rx' = rx
        BY <1>o, <4>1
      <4>2. ASSUME NEW a \in Answers, a.cmd = "GET", rx' = Append(rx, a)
            PROVE  Once(rx', Srcs) /\ (Holds(rx', Srcs) => Holds(rx, Srcs))
        BY <1>o, <1>t, <4>2, AnswerFacts, Answered
      <4> QED BY <1>12, <1>t, <2>4, <4>1, <4>2, Served
    <3> QED BY <1>0, <1>o, <2>1, <2>2, <3>1, SourceFrame
  <2> QED BY <2>3, <2>4
<1>13. CASE LoseRequest
  <2>1. /\ UNCHANGED <<enabled, tables, log_modules, freed, entries, dentry, cpc,
                       arg, rx>>
        /\ tx # <<>> /\ tx' = Tail(tx)
    BY <1>13 DEF LoseRequest, tableVars, callerVars
  <2>2. Once(tx', Srcs) /\ (Holds(tx', Srcs) => Holds(tx, Srcs))
    BY <1>o, <1>t, <2>1, Transferred
  <2> QED BY <1>0, <1>o, <2>1, <2>2, SourceFrame
<1>14. CASE UNCHANGED vars
  BY <1>0, <1>o, <1>14, SourceFrame DEF vars, tableVars, callerVars, wireVars
<1> QED
  BY <1>1, <1>2, <1>3, <1>4, <1>5, <1>6, <1>7, <1>8, <1>9, <1>10, <1>11, <1>12,
     <1>13, <1>14
  DEF Next, Caller, CallRuns, Thread, Firmware, ReadPcs,
      log_level_get_refused, log_level_get_return

-----------------------------------------------------------------------------
(***************************************************************************)
(* Without overlap, one call on a module is active at a time: the others   *)
(* wait for answers that were lost.  A request or an answer on its way     *)
(* belongs to the call the module points to.                               *)
(***************************************************************************)

Active(c) == cpc[c] \in ReadPcs /\ (cpc[c] # "wait" \/ done[c])

\* The call that the module of a file points to.
Owner(m) == read_done[dentry[m]][m]

OneActive ==
  \A c, d \in Callers :
    Active(c) /\ Active(d) /\ arg[c].module = arg[d].module => c = d

Armed ==
  \A c \in Callers :
    /\ cpc[c] \in {"send", "eval"} => read_done[arg[c].table][arg[c].module] = c
    /\ cpc[c] \in {"wait", "return"} => wait_on[c] = c
    /\ cpc[c] \in {"arm", "send"} => ~done[c]

PointersHaveFiles ==
  \A t \in 1..MaxTables, m \in Modules :
    read_done[t][m] # None => dentry[m] = t

OneAnswer ==
  \A m \in Modules :
    /\ Once(tx, Gets(m)) /\ Once(rx, Gets(m))
    /\ ~(Holds(tx, Gets(m)) /\ Holds(rx, Gets(m)))
    /\ Holds(tx, Gets(m)) \/ Holds(rx, Gets(m)) =>
         /\ Owner(m) \in Callers
         /\ arg[Owner(m)].module = m
         /\ cpc[Owner(m)] \in {"eval", "wait"} /\ ~done[Owner(m)]
         /\ \A d \in Callers : Active(d) /\ arg[d].module = m => d = Owner(m)

ReadInv == ~overlap => OneActive /\ Armed /\ PointersHaveFiles /\ OneAnswer

LEMMA ReadInit == Init => ReadInv
<1> SUFFICES ASSUME Init PROVE OneActive /\ Armed /\ PointersHaveFiles /\ OneAnswer
  BY DEF ReadInv
<1>1. OneActive /\ Armed
  BY DEF Init, OneActive, Armed, Active, ReadPcs
<1>2. PointersHaveFiles
  BY DEF Init, PointersHaveFiles
<1>3. OneAnswer
  BY HoldsEmpty DEF Init, OneAnswer
<1> QED BY <1>1, <1>2, <1>3

\* A request or an answer about module m is on its way.
Flying(m) == Holds(tx, Gets(m)) \/ Holds(rx, Gets(m))

\* What OneAnswer says of each module.
AnswerOnce(m) ==
  /\ Once(tx, Gets(m)) /\ Once(rx, Gets(m))
  /\ ~(Holds(tx, Gets(m)) /\ Holds(rx, Gets(m)))

AnswerOwned(m) ==
  Flying(m) =>
    /\ Owner(m) \in Callers
    /\ arg[Owner(m)].module = m
    /\ cpc[Owner(m)] \in {"eval", "wait"} /\ ~done[Owner(m)]
    /\ \A d \in Callers : Active(d) /\ arg[d].module = m => d = Owner(m)

LEMMA OneAnswerParts ==
  /\ OneAnswer <=> \A m \in Modules : AnswerOnce(m) /\ AnswerOwned(m)
  /\ OneAnswer' <=> \A m \in Modules : AnswerOnce(m)' /\ AnswerOwned(m)'
  BY DEF OneAnswer, AnswerOnce, AnswerOwned, Flying

\* Steps outside the calls that read levels.
LEMMA ReadFrame ==
  ASSUME TypeInv, OneActive, Armed, PointersHaveFiles, OneAnswer,
         UNCHANGED <<read_done, dentry>>,
         \A d \in Callers : \/ /\ cpc'[d] = cpc[d] /\ arg'[d] = arg[d]
                               /\ done'[d] = done[d] /\ wait_on'[d] = wait_on[d]
                            \/ cpc[d] \notin ReadPcs /\ cpc'[d] \notin ReadPcs,
         \A m \in Modules : AnswerOnce(m)' /\ (Flying(m)' => Flying(m))
  PROVE  OneActive' /\ Armed' /\ PointersHaveFiles' /\ OneAnswer'
<1>1. OneActive'
  BY DEF OneActive, Active
<1>2. Armed'
  BY DEF Armed, ReadPcs
<1>3. PointersHaveFiles'
  BY DEF PointersHaveFiles
<1>4. ASSUME NEW m \in Modules
      PROVE  AnswerOwned(m)'
  <2> SUFFICES ASSUME Flying(m)'
               PROVE  AnswerOwned(m)'
    BY DEF AnswerOwned
  <2>1. /\ Owner(m) \in Callers
        /\ arg[Owner(m)].module = m
        /\ cpc[Owner(m)] \in {"eval", "wait"} /\ ~done[Owner(m)]
        /\ \A d \in Callers : Active(d) /\ arg[d].module = m => d = Owner(m)
    BY OneAnswerParts DEF AnswerOwned
  <2>2. Owner(m)' = Owner(m)
    BY DEF Owner
  <2>3. arg'[Owner(m)].module = m /\ cpc'[Owner(m)] \in {"eval", "wait"}
        /\ ~done'[Owner(m)]
    BY <2>1 DEF ReadPcs
  <2>4. \A d \in Callers : Active(d)' /\ arg'[d].module = m => d = Owner(m)
    BY <2>1 DEF Active
  <2> QED BY <2>1, <2>2, <2>3, <2>4 DEF AnswerOwned
<1> QED BY <1>1, <1>2, <1>3, <1>4, OneAnswerParts

LEMMA ReadStep ==
  ASSUME TypeInv, TypeInv', StoredInv, ReadInv, [Next]_vars
  PROVE  ReadInv'
<1> DEFINE Goal == OneActive' /\ Armed' /\ PointersHaveFiles' /\ OneAnswer'
<1> SUFFICES ASSUME ~overlap' PROVE Goal
  BY DEF ReadInv
<1>0. OneActive /\ Armed /\ PointersHaveFiles /\ OneAnswer
  BY HistoryGrows DEF ReadInv
<1>t. Types /\ Scoped /\ Types' /\ Scoped'
  BY DEF TypeInv
<1>a. \A m \in Modules : AnswerOnce(m) /\ AnswerOwned(m)
  BY <1>0, OneAnswerParts
<1>n. None \notin Callers /\ None \notin Modules
  BY ConstantsAssumption
<1>r. \A c \in Callers : cpc[c] \in ReadPcs =>
        /\ arg[c].module \in Modules /\ arg[c].table \in 1..MaxTables
        /\ arg[c].table = dentry[arg[c].module]
  BY <1>t, ArgFacts DEF Types, Scoped
\* An active call that is neither sent nor waiting has no answer to come.
<1>f. \A c \in Callers :
        Active(c) /\ (cpc[c] \notin {"eval", "wait"} \/ done[c])
          => \A m \in Modules : Flying(m) => Owner(m) # c /\ arg[c].module # m
  BY <1>a DEF AnswerOwned
<1>1. ASSUME NEW c \in Callers, NEW on \in {0, 1}, log_enable_set(c, on)
      PROVE  Goal
  <2>1. /\ UNCHANGED <<read_done, dentry, tx, rx, done, wait_on>>
        /\ \A d \in Callers : \/ cpc'[d] = cpc[d] /\ arg'[d] = arg[d]
                              \/ cpc[d] \notin ReadPcs /\ cpc'[d] \notin ReadPcs
    BY <1>1, <1>t DEF log_enable_set, MayStart, Goto, ReadPcs, Types,
       tableVars,
                      wireVars
  <2>2. \A m \in Modules : AnswerOnce(m)' /\ (Flying(m)' => Flying(m))
    BY <1>a, <2>1 DEF AnswerOnce, Flying
  <2> QED BY <1>0, <2>1, <2>2, ReadFrame
<1>2. ASSUME NEW c \in Callers, NEW ok \in BOOLEAN, log_enable_send(c, ok)
      PROVE  Goal
  <2>1. /\ UNCHANGED <<read_done, dentry, rx, done, wait_on>>
        /\ \A d \in Callers : \/ cpc'[d] = cpc[d] /\ arg'[d] = arg[d]
                              \/ cpc[d] \notin ReadPcs /\ cpc'[d] \notin ReadPcs
        /\ tx' = tx \/ tx' = Append(tx, [cmd |-> "SRC"])
    BY <1>2, <1>t DEF log_enable_send, Goto, ReadPcs, Types, tableVars
  <2>2. \A m \in Modules : AnswerOnce(m)' /\ (Flying(m)' => Flying(m))
    <3>1. CASE tx' = tx
      BY <1>a, <2>1, <3>1 DEF AnswerOnce, Flying
    <3>2. CASE tx' = Append(tx, [cmd |-> "SRC"])
      <4>1. \A m \in Modules : /\ Holds(tx', Gets(m)) <=> Holds(tx, Gets(m))
                               /\ Once(tx, Gets(m)) => Once(tx', Gets(m))
        BY <1>t, <3>2, NewRequests, RequestFacts, Queued
      <4> QED BY <1>a, <2>1, <4>1 DEF AnswerOnce, Flying
    <3> QED BY <2>1, <3>1, <3>2
  <2> QED BY <1>0, <2>1, <2>2, ReadFrame
<1>3. ASSUME NEW c \in Callers, log_enable_store(c)
      PROVE  Goal
  <2>1. /\ UNCHANGED <<read_done, dentry, tx, rx, done, wait_on>>
        /\ \A d \in Callers : \/ cpc'[d] = cpc[d] /\ arg'[d] = arg[d]
                              \/ cpc[d] \notin ReadPcs /\ cpc'[d] \notin ReadPcs
    BY <1>3, <1>t DEF log_enable_store, Goto, ReadPcs, Types, tableVars,
       wireVars
  <2>2. \A m \in Modules : AnswerOnce(m)' /\ (Flying(m)' => Flying(m))
    BY <1>a, <2>1 DEF AnswerOnce, Flying
  <2> QED BY <1>0, <2>1, <2>2, ReadFrame
<1>4. ASSUME NEW c \in Callers, NEW m \in Modules, NEW l \in Levels,
             log_level_set(c, m, l)
      PROVE  Goal
  <2> DEFINE r == [cmd |-> "SET", module |-> m, lvl |-> l]
  <2>1. r \in Requests /\ \A n \in Modules : r \notin Gets(n)
    <3>1. r \in Requests /\ r.cmd = "SET"
      BY NewRequests
    <3> HIDE DEF r
    <3> QED BY <3>1, RequestFacts
  <2>2. tx' = Append(tx, r) /\ UNCHANGED <<read_done, dentry, callerVars, rx>>
    BY <1>4 DEF log_level_set, tableVars
  <2> HIDE DEF r
  <2>3. \A n \in Modules : AnswerOnce(n)' /\ (Flying(n)' => Flying(n))
    <3>1. \A n \in Modules : /\ Holds(tx', Gets(n)) <=> Holds(tx, Gets(n))
                             /\ Once(tx, Gets(n)) => Once(tx', Gets(n))
      BY <1>t, <2>1, <2>2, Queued
    <3> QED BY <1>a, <2>2, <3>1 DEF AnswerOnce, Flying
  <2> QED BY <1>0, <2>2, <2>3, ReadFrame DEF callerVars
<1>5. ASSUME NEW c \in Callers, NEW m \in Modules, debug_log_level_read(c, m)
      PROVE  Goal
  <2> DEFINE a == [NoArg EXCEPT !.module = m, !.table = dentry[m]]
  <2>1. /\ a.module = m
        /\ cpc[c] = "idle" /\ cpc' = [cpc EXCEPT ![c] = "arm"]
        /\ arg' = [arg EXCEPT ![c] = a]
        /\ done' = [done EXCEPT ![c] = FALSE]
        /\ UNCHANGED <<read_done, dentry, tx, rx, wait_on>>
    BY <1>5, <1>t, NewArgs DEF debug_log_level_read, MayStart, Goto, tableVars,
                               wireVars, Types
  <2> HIDE DEF a
  <2>2. /\ ~Flying(m)
        /\ \A d \in Callers : arg[d].module = m => cpc[d] = "wait" /\ ~done[d]
    <3>1. /\ ~Asked(tx, m) /\ ~Asked(rx, m)
          /\ \A d \in Callers : arg[d].module = m => cpc[d] = "wait" /\ ~done[d]
      BY <1>5 DEF debug_log_level_read
    <3> QED BY <1>t, <3>1, AskedFacts DEF Types, Flying
  <2>3. OneActive'
    BY <1>0, <1>t, <2>1, <2>2 DEF OneActive, Active, Types
  <2>4. Armed'
    BY <1>0, <1>t, <2>1 DEF Armed, Types
  <2>5. PointersHaveFiles'
    BY <1>0, <2>1 DEF PointersHaveFiles
  <2>6. ASSUME NEW n \in Modules
        PROVE  AnswerOnce(n)' /\ AnswerOwned(n)'
    <3>1. AnswerOnce(n)' /\ (Flying(n)' <=> Flying(n)) /\ Owner(n)' = Owner(n)
      BY <1>a, <2>1 DEF AnswerOnce, Flying, Owner
    <3>2. ASSUME Flying(n)
          PROVE  /\ arg'[Owner(n)].module = n
                 /\ cpc'[Owner(n)] \in {"eval", "wait"} /\ ~done'[Owner(n)]
                 /\ \A d \in Callers : Active(d)' /\ arg'[d].module = n => d = Owner(n)
      <4>1. n # m /\ Owner(n) # c /\ AnswerOwned(n)
        BY <1>a, <2>1, <2>2, <3>2 DEF AnswerOwned
      <4> QED BY <1>t, <2>1, <3>2, <4>1 DEF AnswerOwned, Active, Types
    <3> QED BY <1>a, <3>1, <3>2 DEF AnswerOwned
  <2> QED BY <2>3, <2>4, <2>5, <2>6, OneAnswerParts
<1>6. ASSUME NEW c \in Callers, log_level_get_arm(c)
      PROVE  Goal
  <2> DEFINE t == arg[c].table
             m == arg[c].module
  <2>1. /\ cpc[c] = "arm" /\ cpc' = [cpc EXCEPT ![c] = "send"]
        /\ read_done' = [read_done EXCEPT ![t][m] = c]
        /\ UNCHANGED <<dentry, tx, rx, arg, wait_on, done>>
    BY <1>6 DEF log_level_get_arm, Goto, wireVars
  <2>2. /\ m \in Modules /\ t \in 1..MaxTables /\ t = dentry[m]
        /\ Active(c)
    BY <1>r, <2>1 DEF ReadPcs, Active
  <2>3. /\ read_done'[t][m] = c
        /\ \A u \in 1..MaxTables, n \in Modules :
             u # t \/ n # m => read_done'[u][n] = read_done[u][n]
    BY <1>t, <2>1, <2>2 DEF Types
  <2>4. OneActive'
    BY <1>0, <1>t, <2>1 DEF OneActive, Active, Types, ReadPcs
  <2>5. Armed'
    <3>1. ASSUME NEW d \in Callers, d # c, cpc[d] \in {"send", "eval"}
          PROVE  arg[d].module # m
      BY <1>0, <2>2, <3>1 DEF OneActive, Active, ReadPcs
    <3>2. \A d \in Callers : cpc[d] \in {"send", "eval"} =>
            arg[d].module \in Modules /\ arg[d].table \in 1..MaxTables
      BY <1>r DEF ReadPcs
    <3> QED BY <1>0, <1>t, <2>1, <2>3, <3>1, <3>2 DEF Armed, Types
  <2>6. PointersHaveFiles'
    BY <1>0, <2>1, <2>2, <2>3 DEF PointersHaveFiles
  <2>7. ASSUME NEW n \in Modules
        PROVE  AnswerOnce(n)' /\ AnswerOwned(n)'
    <3>1. AnswerOnce(n)' /\ (Flying(n)' <=> Flying(n))
      BY <1>a, <2>1 DEF AnswerOnce, Flying
    <3>2. ASSUME Flying(n)
          PROVE  /\ Owner(n)' = Owner(n) /\ Owner(n) \in Callers
                 /\ arg'[Owner(n)].module = n
                 /\ cpc'[Owner(n)] \in {"eval", "wait"} /\ ~done'[Owner(n)]
                 /\ \A d \in Callers : Active(d)' /\ arg'[d].module = n => d = Owner(n)
      <4>1. n # m /\ Owner(n) # c /\ AnswerOwned(n)
        BY <1>a, <1>f, <2>1, <2>2, <3>2
      <4>2. Owner(n)' = Owner(n)
        <5>1. dentry[n] \in 1..MaxTables
          BY <1>t, <3>2 DEF Types, Scoped, Flying
        <5> QED BY <2>1, <2>3, <4>1, <5>1 DEF Owner
      <4> QED BY <1>t, <2>1, <3>2, <4>1, <4>2, SMTT(20) DEF AnswerOwned, Active, Types, ReadPcs
    <3> QED BY <3>1, <3>2 DEF AnswerOwned
  <2> QED BY <2>4, <2>5, <2>6, <2>7, OneAnswerParts
<1>7. ASSUME NEW c \in Callers, Return(c), cpc[c] \in {"send", "return"},
             UNCHANGED <<enabled, tableVars, wireVars, again, overlap>>
      PROVE  Goal
  <2>1. /\ cpc' = [cpc EXCEPT ![c] = "idle"]
        /\ arg' = [arg EXCEPT ![c] = NoArg]
        /\ wait_on' = [wait_on EXCEPT ![c] = None]
        /\ done' = [done EXCEPT ![c] = FALSE]
        /\ UNCHANGED <<dentry, read_done, tx, rx>>
        /\ Active(c)
    BY <1>7 DEF Return, Goto, tableVars, wireVars, Active, ReadPcs
  <2>2. OneActive'
    BY <1>0, <1>t, <2>1 DEF OneActive, Active, Types, ReadPcs
  <2>3. Armed'
    BY <1>0, <1>t, <2>1 DEF Armed, Types
  <2>4. PointersHaveFiles'
    BY <1>0, <2>1 DEF PointersHaveFiles
  <2>5. ASSUME NEW n \in Modules
        PROVE  AnswerOnce(n)' /\ AnswerOwned(n)'
    <3>1. AnswerOnce(n)' /\ (Flying(n)' <=> Flying(n)) /\ Owner(n)' = Owner(n)
      BY <1>a, <2>1 DEF AnswerOnce, Flying, Owner
    <3>2. ASSUME Flying(n)
          PROVE  /\ arg'[Owner(n)].module = n
                 /\ cpc'[Owner(n)] \in {"eval", "wait"} /\ ~done'[Owner(n)]
                 /\ \A d \in Callers : Active(d)' /\ arg'[d].module = n => d = Owner(n)
      <4>1. Owner(n) # c /\ AnswerOwned(n)
        BY <1>7, <1>a, <1>f, <2>1, <3>2
      <4> QED BY <1>t, <2>1, <3>2, <4>1 DEF AnswerOwned, Active, Types, ReadPcs
    <3> QED BY <1>a, <3>1, <3>2 DEF AnswerOwned
  <2> QED BY <2>2, <2>3, <2>4, <2>5, OneAnswerParts
<1>8. ASSUME NEW c \in Callers, log_level_get_send(c)
      PROVE  Goal
  <2> DEFINE m == arg[c].module
             r == [cmd |-> "GET", module |-> m]
  <2>1. /\ cpc[c] = "send" /\ cpc' = [cpc EXCEPT ![c] = "eval"]
        /\ tx' = Append(tx, r)
        /\ UNCHANGED <<dentry, read_done, rx, arg, wait_on, done>>
        /\ Active(c)
    BY <1>8 DEF log_level_get_send, Goto, tableVars, Active, ReadPcs
  <2>2. m \in Modules /\ arg[c].table = dentry[m]
    BY <1>r, <2>1 DEF ReadPcs
  <2>3. r \in Requests /\ \A n \in Modules : r \in Gets(n) <=> n = m
    <3>1. r \in Requests /\ r.cmd = "GET" /\ r.module = m
      BY <2>2, NewRequests
    <3> HIDE DEF r
    <3> QED BY <2>2, <3>1, RequestFacts
  <2> HIDE DEF r
  <2>4. ~Flying(m)
    BY <1>f, <2>1, <2>2
  <2>5. \A n \in Modules : AnswerOnce(n)' /\ (Flying(n)' => Flying(n) \/ n = m)
    <3>1. \A n \in Modules :
            /\ Holds(tx', Gets(n)) <=> Holds(tx, Gets(n)) \/ n = m
            /\ Once(tx, Gets(n)) /\ (n = m => ~Holds(tx, Gets(n))) => Once(tx', Gets(n))
      BY <1>t, <2>1, <2>3, Queued
    <3> QED BY <1>a, <2>1, <2>4, <3>1 DEF AnswerOnce, Flying
  <2>6. OneActive'
    BY <1>0, <1>t, <2>1 DEF OneActive, Active, Types, ReadPcs
  <2>7. Armed'
    BY <1>0, <1>t, <2>1 DEF Armed, Types
  <2>8. PointersHaveFiles'
    BY <1>0, <2>1 DEF PointersHaveFiles
  <2>9. ASSUME NEW n \in Modules
        PROVE  AnswerOwned(n)'
    <3> SUFFICES ASSUME Flying(n)' PROVE AnswerOwned(n)'
      BY DEF AnswerOwned
    <3>1. Owner(n)' = Owner(n)
      BY <2>1 DEF Owner
    <3>2. CASE n = m
      <4>1. Owner(m) = c /\ ~done[c]
        BY <1>0, <2>1, <2>2 DEF Armed, Owner
      <4>2. \A d \in Callers : Active(d)' /\ arg'[d].module = m => d = c
        BY <1>t, <2>1, <2>6 DEF OneActive, Active, Types, ReadPcs
      <4> QED BY <1>t, <2>1, <3>1, <3>2, <4>1, <4>2 DEF AnswerOwned, Types
    <3>3. CASE n # m
      <4>1. Flying(n) /\ AnswerOwned(n) /\ Owner(n) # c
        BY <1>a, <1>f, <2>1, <2>5, <3>3
      <4> QED BY <1>t, <2>1, <3>1, <4>1 DEF AnswerOwned, Active, Types, ReadPcs
    <3> QED BY <3>2, <3>3
  <2> QED BY <2>5, <2>6, <2>7, <2>8, <2>9, OneAnswerParts
<1>9. ASSUME NEW c \in Callers, log_level_get_wait(c)
      PROVE  Goal
  <2>1. /\ cpc[c] = "eval" /\ cpc' = [cpc EXCEPT ![c] = "wait"]
        /\ wait_on' = [wait_on EXCEPT ![c] = read_done[arg[c].table][arg[c].module]]
        /\ UNCHANGED <<dentry, read_done, tx, rx, arg, done>>
    BY <1>9 DEF log_level_get_wait, Goto, tableVars, wireVars
  <2>2. OneActive'
    BY <1>0, <1>t, <2>1 DEF OneActive, Active, Types, ReadPcs
  <2>3. Armed'
    BY <1>0, <1>t, <2>1 DEF Armed, Types
  <2>4. PointersHaveFiles'
    BY <1>0, <2>1 DEF PointersHaveFiles
  <2>5. ASSUME NEW n \in Modules
        PROVE  AnswerOnce(n)' /\ AnswerOwned(n)'
    <3>1. AnswerOnce(n)' /\ (Flying(n)' <=> Flying(n)) /\ Owner(n)' = Owner(n)
      BY <1>a, <2>1 DEF AnswerOnce, Flying, Owner
    <3> QED BY <1>a, <1>t, <2>1, <3>1 DEF AnswerOwned, Active, Types, ReadPcs
  <2> QED BY <2>2, <2>3, <2>4, <2>5, OneAnswerParts
<1>10. ASSUME NEW c \in Callers, wait_for_completion(c)
       PROVE  Goal
  <2>1. /\ cpc[c] = "wait" /\ cpc' = [cpc EXCEPT ![c] = "return"]
        /\ wait_on[c] = c /\ done[c]
        /\ done' = [done EXCEPT ![c] = FALSE]
        /\ UNCHANGED <<dentry, read_done, tx, rx, arg, wait_on>>
        /\ Active(c)
    BY <1>0, <1>10 DEF wait_for_completion, Goto, tableVars, wireVars, Armed,
       Active,
                       ReadPcs
  <2>2. OneActive'
    BY <1>0, <1>t, <2>1 DEF OneActive, Active, Types, ReadPcs
  <2>3. Armed'
    BY <1>0, <1>t, <2>1 DEF Armed, Types
  <2>4. PointersHaveFiles'
    BY <1>0, <2>1 DEF PointersHaveFiles
  <2>5. ASSUME NEW n \in Modules
        PROVE  AnswerOnce(n)' /\ AnswerOwned(n)'
    <3>1. AnswerOnce(n)' /\ (Flying(n)' <=> Flying(n)) /\ Owner(n)' = Owner(n)
      BY <1>a, <2>1 DEF AnswerOnce, Flying, Owner
    <3>2. ASSUME Flying(n)
          PROVE  AnswerOwned(n)'
      <4>1. Owner(n) # c /\ arg[c].module # n /\ AnswerOwned(n)
        BY <1>a, <1>f, <2>1, <3>2
      <4> QED BY <1>t, <2>1, <3>1, <3>2, <4>1 DEF AnswerOwned, Active, Types, ReadPcs
    <3> QED BY <3>1, <3>2 DEF AnswerOwned
  <2> QED BY <2>2, <2>3, <2>4, <2>5, OneAnswerParts
<1>11. CASE parse_get_log_lvl_response
  <2>1. /\ UNCHANGED <<dentry, read_done, cpc, arg, wait_on, done, tx>>
        /\ rx # <<>> /\ rx' \in {rx, Tail(rx)}
    BY <1>11 DEF parse_get_log_lvl_response, Receive, callerVars
  <2>2. \A n \in Modules : /\ Holds(rx', Gets(n)) => Holds(rx, Gets(n))
                           /\ Once(rx, Gets(n)) => Once(rx', Gets(n))
    BY <1>t, <2>1, Received
  <2>3. \A n \in Modules : AnswerOnce(n)' /\ (Flying(n)' => Flying(n))
    BY <1>a, <2>1, <2>2 DEF AnswerOnce, Flying
  <2> QED BY <1>0, <2>1, <2>3, ReadFrame
<1>18. CASE complete_read_done
  <2> DEFINE t == log_modules
  <2>1. /\ rx # <<>> /\ rx' = Tail(rx) /\ Head(rx).cmd = "GET"
        /\ UNCHANGED <<dentry, read_done, tx, cpc, arg, wait_on>>
    BY <1>18 DEF complete_read_done, StoredInv
  <2>0. Head(rx) \in Answers
    BY <1>t, <2>1, Received
  <2>m. PICK m \in Modules : m = Head(rx).module
    BY <2>0, <2>1, AnswerFacts
  <2>2. Head(rx) \in Gets(m) /\ Flying(m)
    <3>1. Head(rx) \in Gets(m)
      BY <2>0, <2>1, <2>m, AnswerFacts
    <3>2. Holds(rx, Gets(m))
      BY <1>t, <2>1, <3>1, Received
    <3> QED BY <3>1, <3>2 DEF Flying
  <2>3. /\ \A n \in Modules : AnswerOnce(n)' /\ (Flying(n)' => Flying(n))
        /\ ~Flying(m)'
    <3>1. /\ \A n \in Modules : /\ Holds(rx', Gets(n)) => Holds(rx, Gets(n))
                                /\ Once(rx, Gets(n)) => Once(rx', Gets(n))
          /\ Once(rx, Gets(m)) => ~Holds(rx', Gets(m))
          /\ Holds(rx, Gets(m))
      BY <1>t, <2>1, <2>2, Received
    <3> QED BY <1>a, <2>1, <2>2, <3>1 DEF AnswerOnce, Flying
  <2>4. CASE done' = done
    BY <1>0, <2>1, <2>3, <2>4, ReadFrame
  <2>5. CASE t # 0 /\ read_done[t][m] # None
    <3>1. dentry[m] = t /\ Owner(m) = read_done[t][m] /\ t \in 1..MaxTables
      BY <1>0, <1>t, <2>2, <2>5 DEF PointersHaveFiles, Owner, Types
    <3>2. done' = [done EXCEPT ![Owner(m)] = TRUE]
      BY <1>18, <2>m, <2>5, <3>1 DEF complete_read_done, ReadDone, StoredInv
    <3>3. /\ Owner(m) \in Callers /\ arg[Owner(m)].module = m
          /\ cpc[Owner(m)] \in {"eval", "wait"}
          /\ \A d \in Callers : Active(d) /\ arg[d].module = m => d = Owner(m)
      BY <1>a, <2>2 DEF AnswerOwned
    <3>4. \A d \in Callers : d # Owner(m) => (Active(d)' <=> Active(d))
      BY <1>t, <2>1, <3>2, <3>3 DEF Active, Types
    <3>5. OneActive'
      BY <1>0, <2>1, <3>3, <3>4 DEF OneActive
    <3>6. Armed'
      BY <1>0, <1>t, <2>1, <3>2, <3>3 DEF Armed, Types
    <3>7. PointersHaveFiles'
      BY <1>0, <2>1 DEF PointersHaveFiles
    <3>8. ASSUME NEW n \in Modules
          PROVE  AnswerOwned(n)'
      <4> SUFFICES ASSUME Flying(n)' PROVE AnswerOwned(n)'
        BY DEF AnswerOwned
      <4>1. Flying(n) /\ n # m /\ AnswerOwned(n) /\ Owner(n)' = Owner(n)
        BY <1>a, <2>1, <2>3 DEF Owner
      <4>2. /\ Owner(n) \in Callers /\ arg[Owner(n)].module = n
            /\ cpc[Owner(n)] \in {"eval", "wait"} /\ ~done[Owner(n)]
            /\ \A d \in Callers : Active(d) /\ arg[d].module = n => d = Owner(n)
        BY <4>1 DEF AnswerOwned
      <4>3. Owner(n) # Owner(m) /\ ~done'[Owner(n)]
        BY <1>t, <3>2, <3>3, <4>1, <4>2 DEF Types
      <4> QED BY <2>1, <3>3, <3>4, <4>1, <4>2, <4>3 DEF AnswerOwned
    <3> QED BY <2>3, <3>5, <3>6, <3>7, <3>8, OneAnswerParts
  <2> QED BY <1>18, <2>m, <2>4, <2>5 DEF complete_read_done, ReadDone, StoredInv
<1>12. ASSUME NEW ok \in BOOLEAN, parse_log_sources_response(ok)
       PROVE  Goal
  <2>1. /\ UNCHANGED <<dentry, read_done, cpc, arg, wait_on, done, tx>>
        /\ rx # <<>> /\ rx' \in {rx, Tail(rx)}
    BY <1>12 DEF parse_log_sources_response, Receive, callerVars
  <2>2. \A n \in Modules : /\ Holds(rx', Gets(n)) => Holds(rx, Gets(n))
                           /\ Once(rx, Gets(n)) => Once(rx', Gets(n))
    BY <1>t, <2>1, Received
  <2>3. \A n \in Modules : AnswerOnce(n)' /\ (Flying(n)' => Flying(n))
    BY <1>a, <2>1, <2>2 DEF AnswerOnce, Flying
  <2> QED BY <1>0, <2>1, <2>3, ReadFrame
<1>13. ASSUME NEW m \in Modules, debug_create_module_entry(m)
       PROVE  Goal
  <2>1. /\ UNCHANGED <<read_done, cpc, arg, wait_on, done, tx>>
        /\ rx # <<>> /\ rx' \in {rx, Tail(rx)}
        /\ \A n \in Modules : dentry[n] # 0 => dentry'[n] = dentry[n]
    BY <1>13, <1>t DEF debug_create_module_entry, callerVars, Scoped, Types
  <2>2. \A n \in Modules : /\ Holds(rx', Gets(n)) => Holds(rx, Gets(n))
                           /\ Once(rx, Gets(n)) => Once(rx', Gets(n))
    BY <1>t, <2>1, Received
  <2>3. \A n \in Modules : AnswerOnce(n)' /\ (Flying(n)' => Flying(n))
    BY <1>a, <2>1, <2>2 DEF AnswerOnce, Flying
  <2>4. OneActive' /\ Armed'
    BY <1>0, <2>1 DEF OneActive, Armed, Active
  <2>5. PointersHaveFiles'
    BY <1>0, <2>1 DEF PointersHaveFiles
  <2>6. ASSUME NEW n \in Modules
        PROVE  AnswerOwned(n)'
    <3> SUFFICES ASSUME Flying(n)' PROVE AnswerOwned(n)'
      BY DEF AnswerOwned
    <3>1. Flying(n) /\ dentry[n] # 0
      BY <1>t, <2>3 DEF Scoped, Flying
    <3>2. Owner(n)' = Owner(n)
      BY <2>1, <3>1 DEF Owner
    <3> QED BY <1>a, <2>1, <3>1, <3>2 DEF AnswerOwned, Active
  <2> QED BY <2>3, <2>4, <2>5, <2>6, OneAnswerParts
<1>14. CASE FwServe
  <2>1. /\ UNCHANGED <<dentry, read_done, cpc, arg, wait_on, done>>
        /\ tx # <<>> /\ tx' = Tail(tx) /\ Head(tx) \in Requests
    BY <1>14, <1>t, Served DEF FwServe, tableVars, callerVars
  <2>2. \A n \in Modules :
          /\ Holds(tx, Gets(n)) <=> Head(tx) \in Gets(n) \/ Holds(tx', Gets(n))
          /\ Once(tx, Gets(n)) => Once(tx', Gets(n))
          /\ Once(tx, Gets(n)) /\ Head(tx) \in Gets(n) => ~Holds(tx', Gets(n))
    BY <1>t, <2>1, Transferred
  <2> DEFINE Moved ==
        \A n \in Modules :
          /\ Holds(rx', Gets(n)) <=> Holds(rx, Gets(n)) \/ Head(tx) \in Gets(n)
          /\ Once(rx, Gets(n)) /\ (Head(tx) \in Gets(n) => ~Holds(rx, Gets(n)))
               => Once(rx', Gets(n))
  <2>3. Moved
    <3>1. CASE rx' = rx /\ Head(tx).cmd = "SET"
      BY <2>1, <3>1, RequestFacts
    <3>2. ASSUME NEW a \in Answers, rx' = Append(rx, a), a.cmd = Head(tx).cmd,
                 a.cmd = "GET" => a.module = Head(tx).module
          PROVE  Moved
      <4>1. \A n \in Modules : a \in Gets(n) <=> Head(tx) \in Gets(n)
        BY <2>1, <3>2, AnswerFacts, RequestFacts
      <4> QED BY <1>t, <3>2, <4>1, Answered
    <3> HIDE DEF Moved
    <3> QED BY <1>14, <1>t, <3>1, <3>2, Served
  <2>4. \A n \in Modules : AnswerOnce(n)' /\ (Flying(n)' => Flying(n))
    BY <1>a, <2>2, <2>3 DEF AnswerOnce, Flying
  <2> QED BY <1>0, <2>1, <2>4, ReadFrame
<1>15. CASE LoseRequest
  <2>1. /\ UNCHANGED <<dentry, read_done, cpc, arg, wait_on, done, rx>>
        /\ tx # <<>> /\ tx' = Tail(tx)
    BY <1>15 DEF LoseRequest, tableVars, callerVars
  <2>2. \A n \in Modules : /\ Holds(tx', Gets(n)) => Holds(tx, Gets(n))
                           /\ Once(tx, Gets(n)) => Once(tx', Gets(n))
    BY <1>t, <2>1, Transferred
  <2>3. \A n \in Modules : AnswerOnce(n)' /\ (Flying(n)' => Flying(n))
    BY <1>a, <2>1, <2>2 DEF AnswerOnce, Flying
  <2> QED BY <1>0, <2>1, <2>3, ReadFrame
<1>16. CASE LoseAnswer
  <2>1. /\ UNCHANGED <<dentry, read_done, cpc, arg, wait_on, done, tx>>
        /\ rx # <<>> /\ rx' = Tail(rx)
    BY <1>16 DEF LoseAnswer, tableVars, callerVars
  <2>2. \A n \in Modules : /\ Holds(rx', Gets(n)) => Holds(rx, Gets(n))
                           /\ Once(rx, Gets(n)) => Once(rx', Gets(n))
    BY <1>t, <2>1, Received
  <2>3. \A n \in Modules : AnswerOnce(n)' /\ (Flying(n)' => Flying(n))
    BY <1>a, <2>1, <2>2 DEF AnswerOnce, Flying
  <2> QED BY <1>0, <2>1, <2>3, ReadFrame
<1>17. CASE UNCHANGED vars
  <2>1. UNCHANGED <<dentry, read_done, cpc, arg, wait_on, done, tx, rx>>
    BY <1>17 DEF vars, tableVars, callerVars, wireVars
  <2>2. \A n \in Modules : AnswerOnce(n)' /\ (Flying(n)' => Flying(n))
    BY <1>a, <2>1 DEF AnswerOnce, Flying
  <2> QED BY <1>0, <2>1, <2>2, ReadFrame
<1> HIDE DEF Goal
<1> QED
  BY <1>1, <1>2, <1>3, <1>4, <1>5, <1>6, <1>7, <1>8, <1>9, <1>10, <1>11, <1>12,
     <1>13, <1>14, <1>15, <1>16, <1>17, <1>18
  DEF Next, Caller, CallRuns, Thread, Firmware,
      log_level_get_refused, log_level_get_return

-----------------------------------------------------------------------------
(***************************************************************************)
(* Where the level that a call returns comes from, step by step.           *)
(***************************************************************************)

ToAsk(c) == cpc[c] \in {"arm", "send"}
Told(c)  == (cpc[c] \in {"eval", "wait"} /\ done[c]) \/ cpc[c] = "return"

\* Before the request is sent: the level after all requests so far.
LevelToAsk(c) ==
  ToAsk(c) =>
    \A l : SeenAt(tx, fw_lvl[arg[c].module], arg[c].module, Len(tx) + 1, l)
             => l \in may_read[c]

\* While it waits to be transferred: the level after the requests before it.
LevelAsked(m) ==
  \A i \in DOMAIN tx :
    tx[i] \in Gets(m) =>
      \A l : SeenAt(tx, fw_lvl[m], m, i, l) => l \in may_read[Owner(m)]

\* In the answer, and in the table.
LevelAnswered(m) ==
  \A i \in DOMAIN rx : rx[i] \in Gets(m) => rx[i].lvl \in may_read[Owner(m)]

LevelTold(c) == Told(c) => lvl[arg[c].table][arg[c].module] \in may_read[c]

LevelInv ==
  ~overlap /\ ~again =>
    /\ \A c \in Callers : LevelToAsk(c) /\ LevelTold(c)
    /\ \A m \in Modules : LevelAsked(m) /\ LevelAnswered(m)

LEMMA LevelInit == Init => LevelInv
  BY DEF Init, LevelInv, LevelToAsk, LevelTold, LevelAsked, LevelAnswered,
     ToAsk, Told

\* A request behind the others does not change what they see.
LEMMA SeenAppend ==
  ASSUME NEW s \in Seq(Requests), NEW r \in Requests, NEW m \in Modules, NEW f
  PROVE  /\ \A p \in 1..(Len(s) + 1) : \A l :
              SeenAt(Append(s, r), f, m, p, l) => SeenAt(s, f, m, p, l)
         /\ \A l : SeenAt(Append(s, r), f, m, Len(s) + 2, l) =>
              IF r \in Sets(m) THEN l = r.lvl ELSE SeenAt(s, f, m, Len(s) + 1, l)
<1>1. /\ Len(s) \in Nat
      /\ DOMAIN s = 1..Len(s)
      /\ DOMAIN Append(s, r) = 1..(Len(s) + 1)
      /\ \A i \in 1..Len(s) : Append(s, r)[i] = s[i]
      /\ Append(s, r)[Len(s) + 1] = r
  BY AppendFacts
<1>2. ASSUME NEW p \in 1..(Len(s) + 1), NEW l, SeenAt(Append(s, r), f, m, p, l)
      PROVE  SeenAt(s, f, m, p, l)
  BY <1>1, <1>2 DEF SeenAt
<1>3. ASSUME NEW l, SeenAt(Append(s, r), f, m, Len(s) + 2, l), r \in Sets(m)
      PROVE  l = r.lvl
  <2>1. Len(s) + 1 \in 1..(Len(s) + 1) /\ Len(s) + 1 < Len(s) + 2
    BY <1>1
  <2>2. PICK i \in 1..(Len(s) + 1) :
          /\ Append(s, r)[i].lvl = l
          /\ \A j \in 1..(Len(s) + 1) :
               i < j /\ j < Len(s) + 2 => Append(s, r)[j] \notin Sets(m)
    BY <1>1, <1>3, <2>1 DEF SeenAt
  <2>3. i = Len(s) + 1
    BY <1>1, <1>3, <2>1, <2>2
  <2> QED BY <1>1, <2>2, <2>3
<1>4. ASSUME NEW l, SeenAt(Append(s, r), f, m, Len(s) + 2, l), r \notin Sets(m)
      PROVE  SeenAt(s, f, m, Len(s) + 1, l)
  BY <1>1, <1>4 DEF SeenAt
<1> QED BY <1>2, <1>3, <1>4

\* A request that is served is seen as before; when it is lost, the level
\* before it may be seen instead.
LEMMA SeenTail ==
  ASSUME NEW s \in Seq(Requests), s # <<>>, NEW m \in Modules, NEW f, NEW g,
         g = f \/ (Head(s) \in Sets(m) /\ g = Head(s).lvl),
         NEW p \in Nat \ {0}, NEW l, SeenAt(Tail(s), g, m, p, l)
  PROVE  \/ SeenAt(s, f, m, p + 1, l)
         \/ Head(s) \in Sets(m) /\ g # Head(s).lvl /\ l = f
<1>1. /\ Head(s) = s[1]
      /\ Len(s) \in Nat /\ Len(s) >= 1
      /\ DOMAIN s = 1..Len(s)
      /\ DOMAIN Tail(s) = 1..(Len(s) - 1)
      /\ \A i \in 1..(Len(s) - 1) : Tail(s)[i] = s[i + 1]
  BY TailFacts
<1>2. \A j \in 1..Len(s) : j # 1 => j - 1 \in 1..(Len(s) - 1)
                                    /\ Tail(s)[j - 1] = s[j]
  BY <1>1
<1>3. ASSUME NEW i \in 1..(Len(s) - 1), i < p, Tail(s)[i] \in Sets(m),
             Tail(s)[i].lvl = l,
             \A j \in DOMAIN Tail(s) : i < j /\ j < p => Tail(s)[j] \notin Sets(m)
      PROVE  SeenAt(s, f, m, p + 1, l)
  <2>1. i + 1 \in DOMAIN s /\ i + 1 < p + 1 /\ s[i + 1] \in Sets(m)
        /\ s[i + 1].lvl = l
    BY <1>1, <1>3
  <2>2. ASSUME NEW j \in DOMAIN s, i + 1 < j, j < p + 1
        PROVE  s[j] \notin Sets(m)
    <3>1. j # 1 /\ j - 1 \in DOMAIN Tail(s) /\ i < j - 1 /\ j - 1 < p
      BY <1>1, <1>2, <2>2
    <3> QED BY <1>1, <1>2, <1>3, <3>1
  <2> QED BY <2>1, <2>2 DEF SeenAt
<1>4. ASSUME l = g, \A j \in DOMAIN Tail(s) : j < p => Tail(s)[j] \notin Sets(m)
      PROVE  \/ SeenAt(s, f, m, p + 1, l)
             \/ Head(s) \in Sets(m) /\ g # Head(s).lvl /\ l = f
  <2>1. ASSUME NEW j \in DOMAIN s, j # 1, j < p + 1
        PROVE  s[j] \notin Sets(m)
    <3>1. j - 1 \in DOMAIN Tail(s) /\ j - 1 < p
      BY <1>1, <1>2, <2>1
    <3> QED BY <1>1, <1>2, <1>4, <2>1, <3>1
  <2>2. CASE Head(s) \in Sets(m) /\ g = Head(s).lvl
    <3>1. 1 \in DOMAIN s /\ 1 < p + 1 /\ s[1] \in Sets(m) /\ s[1].lvl = l
      BY <1>1, <1>4, <2>2
    <3>2. \A j \in DOMAIN s : 1 < j /\ j < p + 1 => s[j] \notin Sets(m)
      BY <1>1, <2>1
    <3> QED BY <3>1, <3>2 DEF SeenAt
  <2>3. CASE Head(s) \notin Sets(m)
    <3>1. \A j \in DOMAIN s : j < p + 1 => s[j] \notin Sets(m)
      BY <1>1, <2>1, <2>3
    <3> QED BY <1>4, <2>3, <3>1 DEF SeenAt
  <2> QED BY <1>4, <2>2, <2>3
<1> QED BY <1>1, <1>3, <1>4 DEF SeenAt

\* The oldest request sees the level that the firmware has.
LEMMA SeenFirst ==
  ASSUME NEW s \in Seq(Requests), NEW m, NEW f
  PROVE  SeenAt(s, f, m, 1, f)
  BY DEF SeenAt

-----------------------------------------------------------------------------
(***************************************************************************)
(* What the steps of others leave of this.                                 *)
(***************************************************************************)

AskStays(m, c) ==
  \A l : SeenAt(tx', fw_lvl'[m], m, Len(tx') + 1, l) =>
           \/ l \in may_read'[c]
           \/ SeenAt(tx, fw_lvl[m], m, Len(tx) + 1, l)

GetStays(m) ==
  \A i \in DOMAIN tx' : \A l :
    tx'[i] \in Gets(m) /\ SeenAt(tx', fw_lvl'[m], m, i, l) =>
      /\ Holds(tx, Gets(m))
      /\ \/ l \in may_read'[Owner(m)]
         \/ \E j \in DOMAIN tx : tx[j] \in Gets(m) /\ SeenAt(tx, fw_lvl[m], m, j, l)

AnswerStays(m) ==
  \A i \in DOMAIN rx' :
    rx'[i] \in Gets(m) =>
      \/ \E j \in DOMAIN rx : rx[j] \in Gets(m) /\ rx[j].lvl = rx'[i].lvl
      \/ \E j \in DOMAIN tx : /\ tx[j] \in Gets(m)
                              /\ SeenAt(tx, fw_lvl[m], m, j, rx'[i].lvl)

LEMMA CallerFrame ==
  ASSUME NEW c \in Callers, LevelToAsk(c), LevelTold(c),
         ToAsk(c)' => ToAsk(c) /\ AskStays(arg[c].module, c),
         Told(c)' => Told(c) /\ lvl'[arg[c].table][arg[c].module]
                                  = lvl[arg[c].table][arg[c].module],
         cpc'[c] \in ReadPcs => arg'[c] = arg[c] /\ may_read[c] \subseteq may_read'[c]
  PROVE  LevelToAsk(c)' /\ LevelTold(c)'
<1>1. ASSUME ToAsk(c)',
             NEW l, SeenAt(tx', fw_lvl'[arg'[c].module], arg'[c].module, Len(tx') + 1, l)
      PROVE  l \in may_read'[c]
  <2>1. arg'[c] = arg[c] /\ may_read[c] \subseteq may_read'[c]
    BY <1>1 DEF ToAsk, ReadPcs
  <2> QED BY <1>1, <2>1 DEF AskStays, LevelToAsk
<1>2. ASSUME Told(c)'
      PROVE  lvl'[arg'[c].table][arg'[c].module] \in may_read'[c]
  <2>1. arg'[c] = arg[c] /\ may_read[c] \subseteq may_read'[c]
    BY <1>2 DEF Told, ReadPcs
  <2> QED BY <1>2, <2>1 DEF LevelTold
<1> QED BY <1>1, <1>2 DEF LevelToAsk, LevelTold

LEMMA ModuleFrame ==
  ASSUME NEW m \in Modules, LevelAsked(m), LevelAnswered(m),
         Flying(m) => /\ Owner(m)' = Owner(m)
                      /\ may_read[Owner(m)] \subseteq may_read'[Owner(m)],
         GetStays(m), AnswerStays(m)
  PROVE  LevelAsked(m)' /\ LevelAnswered(m)'
<1>1. ASSUME NEW i \in DOMAIN tx', tx'[i] \in Gets(m),
             NEW l, SeenAt(tx', fw_lvl'[m], m, i, l)
      PROVE  l \in may_read'[Owner(m)']
  BY <1>1 DEF GetStays, LevelAsked, Flying
<1>2. ASSUME NEW i \in DOMAIN rx', rx'[i] \in Gets(m)
      PROVE  rx'[i].lvl \in may_read'[Owner(m)']
  <2>1. CASE \E j \in DOMAIN rx : rx[j] \in Gets(m) /\ rx[j].lvl = rx'[i].lvl
    BY <2>1 DEF LevelAnswered, Flying, Holds
  <2>2. CASE \E j \in DOMAIN tx : /\ tx[j] \in Gets(m)
                                  /\ SeenAt(tx, fw_lvl[m], m, j, rx'[i].lvl)
    BY <2>2 DEF LevelAsked, Flying, Holds
  <2> QED BY <1>2, <2>1, <2>2 DEF AnswerStays
<1> QED BY <1>1, <1>2 DEF LevelAsked, LevelAnswered

LEMMA QuietTx ==
  ASSUME UNCHANGED <<tx, fw_lvl>>
  PROVE  /\ \A m \in Modules : GetStays(m)
         /\ \A m \in Modules, c \in Callers : AskStays(m, c)
  BY DEF GetStays, AskStays, Holds

LEMMA QuietRx ==
  ASSUME Types, rx' = rx \/ (rx # <<>> /\ rx' = Tail(rx))
  PROVE  \A m \in Modules : AnswerStays(m)
<1>1. CASE rx' = rx
  BY <1>1 DEF AnswerStays
<1>2. CASE rx # <<>> /\ rx' = Tail(rx)
  <2>1. \A i \in DOMAIN rx' : i + 1 \in DOMAIN rx /\ rx'[i] = rx[i + 1]
    BY <1>2, TailFacts DEF Types
  <2> QED BY <2>1 DEF AnswerStays
<1> QED BY <1>1, <1>2

LEMMA SendTx ==
  ASSUME Types, NEW r \in Requests, tx' = Append(tx, r), fw_lvl' = fw_lvl,
         NEW m \in Modules
  PROVE  /\ r \notin Gets(m) => GetStays(m)
         /\ \A c \in Callers : (r \in Sets(m) => r.lvl \in may_read'[c])
                                 => AskStays(m, c)
<1>1. /\ tx \in Seq(Requests) /\ Len(tx) \in Nat
      /\ DOMAIN tx = 1..Len(tx)
      /\ DOMAIN tx' = 1..(Len(tx) + 1) /\ Len(tx') = Len(tx) + 1
      /\ \A i \in 1..Len(tx) : tx'[i] = tx[i]
      /\ tx'[Len(tx) + 1] = r
  BY AppendFacts DEF Types
<1>2. ASSUME r \notin Gets(m) PROVE GetStays(m)
  <2> SUFFICES ASSUME NEW i \in DOMAIN tx', NEW l, tx'[i] \in Gets(m),
                      SeenAt(tx', fw_lvl[m], m, i, l)
               PROVE  /\ Holds(tx, Gets(m))
                      /\ \E j \in DOMAIN tx : /\ tx[j] \in Gets(m)
                                              /\ SeenAt(tx, fw_lvl[m], m, j, l)
    BY DEF GetStays
  <2>1. i \in 1..Len(tx) /\ tx[i] \in Gets(m)
    BY <1>1, <1>2
  <2>2. SeenAt(tx, fw_lvl[m], m, i, l)
    BY <1>1, <2>1, SeenAppend
  <2> QED BY <1>1, <2>1, <2>2 DEF Holds
<1>3. ASSUME NEW c \in Callers, r \in Sets(m) => r.lvl \in may_read'[c]
      PROVE  AskStays(m, c)
  <2> SUFFICES ASSUME NEW l, SeenAt(tx', fw_lvl[m], m, Len(tx') + 1, l)
               PROVE  \/ l \in may_read'[c]
                      \/ SeenAt(tx, fw_lvl[m], m, Len(tx) + 1, l)
    BY DEF AskStays
  <2>1. Len(tx') + 1 = Len(tx) + 2
    BY <1>1
  <2>2. IF r \in Sets(m) THEN l = r.lvl ELSE SeenAt(tx, fw_lvl[m], m, Len(tx) + 1, l)
    BY <1>1, <2>1, SeenAppend
  <2> QED BY <1>3, <2>2
<1> QED BY <1>2, <1>3

\* The first request is served, or lost.
LEMMA TakeTx ==
  ASSUME Types, tx # <<>>, tx' = Tail(tx), NEW m \in Modules,
         \/ fw_lvl'[m] = fw_lvl[m]
         \/ Head(tx) \in Sets(m) /\ fw_lvl'[m] = Head(tx).lvl
  PROVE  /\ (Head(tx) \in Sets(m) /\ fw_lvl'[m] # Head(tx).lvl /\ Holds(tx, Gets(m))
                => fw_lvl[m] \in may_read'[Owner(m)]) => GetStays(m)
         /\ \A c \in Callers :
              (Head(tx) \in Sets(m) /\ fw_lvl'[m] # Head(tx).lvl
                 => fw_lvl[m] \in may_read'[c]) => AskStays(m, c)
<1>1. /\ tx \in Seq(Requests) /\ Len(tx) \in Nat /\ Len(tx) >= 1
      /\ DOMAIN tx = 1..Len(tx)
      /\ DOMAIN tx' = 1..(Len(tx) - 1) /\ Len(tx') = Len(tx) - 1
      /\ \A i \in 1..(Len(tx) - 1) : tx'[i] = tx[i + 1]
  BY TailFacts DEF Types
<1>2. ASSUME NEW p \in Nat \ {0}, NEW l, SeenAt(tx', fw_lvl'[m], m, p, l)
      PROVE  \/ SeenAt(tx, fw_lvl[m], m, p + 1, l)
             \/ Head(tx) \in Sets(m) /\ fw_lvl'[m] # Head(tx).lvl /\ l = fw_lvl[m]
  BY <1>1, <1>2, SeenTail
<1>3. ASSUME Head(tx) \in Sets(m) /\ fw_lvl'[m] # Head(tx).lvl /\ Holds(tx, Gets(m))
               => fw_lvl[m] \in may_read'[Owner(m)],
             NEW i \in DOMAIN tx', NEW l, tx'[i] \in Gets(m),
             SeenAt(tx', fw_lvl'[m], m, i, l)
      PROVE  /\ Holds(tx, Gets(m))
             /\ \/ l \in may_read'[Owner(m)]
                \/ \E j \in DOMAIN tx : /\ tx[j] \in Gets(m)
                                        /\ SeenAt(tx, fw_lvl[m], m, j, l)
  <2>1. i \in Nat \ {0} /\ i + 1 \in DOMAIN tx /\ tx[i + 1] \in Gets(m)
    BY <1>1, <1>3
  <2>2. Holds(tx, Gets(m))
    BY <2>1 DEF Holds
  <2> QED BY <1>2, <1>3, <2>1, <2>2
<1>4. ASSUME NEW c \in Callers,
             Head(tx) \in Sets(m) /\ fw_lvl'[m] # Head(tx).lvl
               => fw_lvl[m] \in may_read'[c],
             NEW l, SeenAt(tx', fw_lvl'[m], m, Len(tx') + 1, l)
      PROVE  l \in may_read'[c] \/ SeenAt(tx, fw_lvl[m], m, Len(tx) + 1, l)
  <2>1. Len(tx') + 1 \in Nat \ {0} /\ (Len(tx') + 1) + 1 = Len(tx) + 1
    BY <1>1
  <2>2. \/ SeenAt(tx, fw_lvl[m], m, (Len(tx') + 1) + 1, l)
        \/ Head(tx) \in Sets(m) /\ fw_lvl'[m] # Head(tx).lvl /\ l = fw_lvl[m]
    BY <1>2, <1>4, <2>1
  <2> QED BY <1>4, <2>1, <2>2
<1>5. (Head(tx) \in Sets(m) /\ fw_lvl'[m] # Head(tx).lvl /\ Holds(tx, Gets(m))
         => fw_lvl[m] \in may_read'[Owner(m)]) => GetStays(m)
  BY <1>3 DEF GetStays
<1>6. \A c \in Callers :
        (Head(tx) \in Sets(m) /\ fw_lvl'[m] # Head(tx).lvl
           => fw_lvl[m] \in may_read'[c]) => AskStays(m, c)
  BY <1>4 DEF AskStays
<1> QED BY <1>5, <1>6

\* The firmware answers with the level that it has.
LEMMA ServeRx ==
  ASSUME Types, FwServe, NEW m \in Modules
  PROVE  AnswerStays(m)
<1>1. CASE rx' = rx
  BY <1>1 DEF AnswerStays
<1>2. ASSUME NEW a \in Answers, rx' = Append(rx, a),
             a \in Gets(m) => Head(tx) \in Gets(m) /\ a.lvl = fw_lvl[m]
      PROVE  AnswerStays(m)
  <2>1. /\ DOMAIN rx' = 1..(Len(rx) + 1) /\ DOMAIN rx = 1..Len(rx) /\ Len(rx) \in Nat
        /\ \A i \in 1..Len(rx) : rx'[i] = rx[i]
        /\ rx'[Len(rx) + 1] = a
    BY <1>2, AppendFacts DEF Types
  <2>2. /\ tx # <<>> /\ tx \in Seq(Requests)
        /\ 1 \in DOMAIN tx /\ tx[1] = Head(tx)
    BY Served, TailFacts DEF Types
  <2>3. SeenAt(tx, fw_lvl[m], m, 1, fw_lvl[m])
    BY <2>2, SeenFirst
  <2>4. ASSUME NEW i \in DOMAIN rx', rx'[i] \in Gets(m)
        PROVE  \/ \E j \in DOMAIN rx : rx[j] \in Gets(m) /\ rx[j].lvl = rx'[i].lvl
               \/ \E j \in DOMAIN tx : /\ tx[j] \in Gets(m)
                                       /\ SeenAt(tx, fw_lvl[m], m, j, rx'[i].lvl)
    <3>1. CASE i \in 1..Len(rx)
      BY <2>1, <2>4, <3>1
    <3>2. CASE i = Len(rx) + 1
      BY <1>2, <2>1, <2>2, <2>3, <2>4, <3>2
    <3> QED BY <2>1, <3>1, <3>2
  <2> QED BY <2>4 DEF AnswerStays
<1>3. CASE rx' # rx
  <2>1. PICK a \in Answers : /\ rx' = Append(rx, a)
                             /\ a.cmd = Head(tx).cmd
                             /\ a.cmd = "GET" => /\ a.module = Head(tx).module
                                                 /\ a.lvl = fw_lvl[a.module]
    BY <1>3, Served
  <2>2. a \in Gets(m) => Head(tx) \in Gets(m) /\ a.lvl = fw_lvl[m]
    BY <2>1, Served, AnswerFacts, RequestFacts
  <2> QED BY <1>2, <2>1, <2>2
<1> QED BY <1>1, <1>3

LEMMA LevelStep ==
  ASSUME TypeInv, TypeInv', StoredInv, SourceInv, ReadInv, LevelInv, [Next]_vars
  PROVE  LevelInv'
<1> DEFINE Goal == /\ \A c \in Callers : LevelToAsk(c)' /\ LevelTold(c)'
                   /\ \A m \in Modules : LevelAsked(m)' /\ LevelAnswered(m)'
<1> SUFFICES ASSUME ~overlap', ~again' PROVE Goal
  BY DEF LevelInv
<1>0. ~overlap /\ ~again
  BY HistoryGrows
<1>l. /\ \A c \in Callers : LevelToAsk(c) /\ LevelTold(c)
      /\ \A m \in Modules : LevelAsked(m) /\ LevelAnswered(m)
  BY <1>0 DEF LevelInv
<1>i. OneTable /\ OneActive /\ Armed /\ PointersHaveFiles /\ OneAnswer
  BY <1>0 DEF SourceInv, ReadInv
<1>a. \A m \in Modules : AnswerOnce(m) /\ AnswerOwned(m)
  BY <1>i, OneAnswerParts
<1>t. Types /\ Scoped /\ Types' /\ Scoped'
  BY DEF TypeInv
<1>r. \A c \in Callers : cpc[c] \in ReadPcs =>
        /\ arg[c].module \in Modules /\ arg[c].table \in 1..MaxTables
        /\ arg[c].table = dentry[arg[c].module]
  BY <1>t, ArgFacts, SMTT(20) DEF Types, Scoped
<1>f. \A m \in Modules : Flying(m) =>
        /\ Owner(m) \in Callers /\ cpc[Owner(m)] \in {"eval", "wait"}
        /\ arg[Owner(m)].module = m
        /\ dentry[m] \in 1..MaxTables
  BY <1>a, <1>t DEF AnswerOwned, Flying, Scoped, Types
\* Steps outside the calls that read levels.
<1>q. ASSUME \A d \in Callers :
               \/ /\ cpc'[d] = cpc[d] /\ arg'[d] = arg[d] /\ done'[d] = done[d]
                  /\ may_read[d] \subseteq may_read'[d]
               \/ cpc[d] \notin ReadPcs /\ cpc'[d] \notin ReadPcs,
             \A c \in Callers : cpc[c] \in ReadPcs =>
               lvl'[arg[c].table][arg[c].module] = lvl[arg[c].table][arg[c].module],
             \A m \in Modules : Flying(m) => Owner(m)' = Owner(m),
             \A c \in Callers : ToAsk(c) => AskStays(arg[c].module, c),
             \A m \in Modules : GetStays(m) /\ AnswerStays(m)
      PROVE  Goal
  <2>1. ASSUME NEW c \in Callers
        PROVE  LevelToAsk(c)' /\ LevelTold(c)'
    <3>1. /\ ToAsk(c)' => ToAsk(c)
          /\ Told(c)' => Told(c) /\ cpc[c] \in ReadPcs
          /\ cpc'[c] \in ReadPcs => arg'[c] = arg[c] /\ may_read[c] \subseteq may_read'[c]
      BY <1>q DEF ToAsk, Told, ReadPcs
    <3> QED BY <1>l, <1>q, <3>1, CallerFrame
  <2>2. ASSUME NEW m \in Modules
        PROVE  LevelAsked(m)' /\ LevelAnswered(m)'
    <3>1. Flying(m) => may_read[Owner(m)] \subseteq may_read'[Owner(m)]
      BY <1>f, <1>q DEF ReadPcs
    <3> QED BY <1>l, <1>q, <3>1, ModuleFrame
  <2> QED BY <2>1, <2>2
<1>m. \A c \in Callers : ToAsk(c) => arg[c].module \in Modules
  BY <1>r DEF ToAsk, ReadPcs
<1> HIDE DEF Goal
<1>1. ASSUME NEW c \in Callers, NEW on \in {0, 1}, log_enable_set(c, on)
      PROVE  Goal
  <2>1. /\ UNCHANGED <<read_done, dentry, lvl, tx, rx, fw_lvl, done, may_read>>
        /\ \A d \in Callers : \/ cpc'[d] = cpc[d] /\ arg'[d] = arg[d]
                              \/ cpc[d] \notin ReadPcs /\ cpc'[d] \notin ReadPcs
    BY <1>1, <1>t DEF log_enable_set, MayStart, Goto, ReadPcs, Types,
       tableVars,
                      wireVars
  <2>2. \A m \in Modules : Owner(m)' = Owner(m)
    BY <2>1 DEF Owner
  <2> QED BY <1>q, <1>m, <1>t, <2>1, <2>2, QuietTx, QuietRx
<1>2. ASSUME NEW c \in Callers, NEW ok \in BOOLEAN, log_enable_send(c, ok)
      PROVE  Goal
  <2>1. /\ UNCHANGED <<read_done, dentry, lvl, rx, fw_lvl, done, may_read>>
        /\ \A d \in Callers : \/ cpc'[d] = cpc[d] /\ arg'[d] = arg[d]
                              \/ cpc[d] \notin ReadPcs /\ cpc'[d] \notin ReadPcs
        /\ tx' = tx \/ tx' = Append(tx, [cmd |-> "SRC"])
    BY <1>2, <1>t DEF log_enable_send, Goto, ReadPcs, Types, tableVars,
       histVars
  <2>2. \A m \in Modules : Owner(m)' = Owner(m)
    BY <2>1 DEF Owner
  <2>3. /\ \A m \in Modules : GetStays(m)
        /\ \A m \in Modules, d \in Callers : AskStays(m, d)
    <3>1. CASE tx' = tx
      BY <2>1, <3>1, QuietTx
    <3>2. CASE tx' = Append(tx, [cmd |-> "SRC"])
      <4>1. /\ [cmd |-> "SRC"] \in Requests
            /\ \A m \in Modules : /\ [cmd |-> "SRC"] \notin Gets(m)
                                  /\ [cmd |-> "SRC"] \notin Sets(m)
        BY NewRequests, RequestFacts
      <4> QED BY <1>t, <2>1, <3>2, <4>1, SendTx
    <3> QED BY <2>1, <3>1, <3>2
  <2> QED BY <1>q, <1>m, <1>t, <2>1, <2>2, <2>3, QuietRx
<1>3. ASSUME NEW c \in Callers, log_enable_store(c)
      PROVE  Goal
  <2>1. /\ UNCHANGED <<read_done, dentry, lvl, tx, rx, fw_lvl, done, may_read>>
        /\ \A d \in Callers : \/ cpc'[d] = cpc[d] /\ arg'[d] = arg[d]
                              \/ cpc[d] \notin ReadPcs /\ cpc'[d] \notin ReadPcs
    BY <1>3, <1>t DEF log_enable_store, Goto, ReadPcs, Types, tableVars,
       wireVars,
                      histVars
  <2>2. \A m \in Modules : Owner(m)' = Owner(m)
    BY <2>1 DEF Owner
  <2> QED BY <1>q, <1>m, <1>t, <2>1, <2>2, QuietTx, QuietRx
<1>4. ASSUME NEW c \in Callers, NEW m \in Modules, NEW l \in Levels,
             log_level_set(c, m, l)
      PROVE  Goal
  <2> DEFINE r == [cmd |-> "SET", module |-> m, lvl |-> l]
  <2>1. /\ r \in Requests /\ r.lvl = l
        /\ \A n \in Modules : r \notin Gets(n) /\ (r \in Sets(n) <=> n = m)
    <3>1. r \in Requests /\ r.cmd = "SET" /\ r.module = m /\ r.lvl = l
      BY NewRequests
    <3> HIDE DEF r
    <3> QED BY <3>1, RequestFacts
  <2>2. /\ tx' = Append(tx, r)
        /\ UNCHANGED <<read_done, dentry, lvl, cpc, arg, done, rx, fw_lvl>>
        /\ may_read' = [d \in Callers |-> IF arg[d].module = m
                                            THEN may_read[d] \cup {l}
                                            ELSE may_read[d]]
    BY <1>4 DEF log_level_set, tableVars, callerVars
  <2> HIDE DEF r
  <2>3. /\ \A n \in Modules : GetStays(n)
        /\ \A d \in Callers : ToAsk(d) => AskStays(arg[d].module, d)
    BY <1>t, <1>m, <2>1, <2>2, SendTx
  <2>4. \A n \in Modules : Owner(n)' = Owner(n)
    BY <2>2 DEF Owner
  <2>5. \A d \in Callers : may_read[d] \subseteq may_read'[d]
    BY <2>2
  <2> QED BY <1>q, <1>t, <2>2, <2>3, <2>4, <2>5, QuietRx
<1>5. ASSUME NEW c \in Callers, NEW m \in Modules, debug_log_level_read(c, m)
      PROVE  Goal
  <2> DEFINE a == [NoArg EXCEPT !.module = m, !.table = dentry[m]]
  <2>1. /\ a.module = m
        /\ cpc[c] = "idle" /\ cpc' = [cpc EXCEPT ![c] = "arm"]
        /\ arg' = [arg EXCEPT ![c] = a]
        /\ done' = [done EXCEPT ![c] = FALSE]
        /\ may_read' = [may_read EXCEPT ![c] = {LevelAfter(m)}]
        /\ UNCHANGED <<read_done, dentry, lvl, tx, rx, fw_lvl>>
    BY <1>5, <1>t, NewArgs DEF debug_log_level_read, MayStart, Goto, tableVars,
                               wireVars, Types
  <2> HIDE DEF a
  <2>2. ASSUME NEW d \in Callers, d # c
        PROVE  LevelToAsk(d)' /\ LevelTold(d)'
    <3>1. /\ cpc'[d] = cpc[d] /\ arg'[d] = arg[d] /\ done'[d] = done[d]
          /\ may_read'[d] = may_read[d]
      BY <1>t, <2>1, <2>2 DEF Types
    <3>2. ToAsk(d) => AskStays(arg[d].module, d)
      BY <1>m, <2>1, QuietTx
    <3> QED BY <1>l, <2>1, <3>1, <3>2, CallerFrame DEF ToAsk, Told
  <2>3. LevelToAsk(c)' /\ LevelTold(c)'
    <3>1. /\ cpc'[c] = "arm" /\ arg'[c].module = m /\ may_read'[c] = {LevelAfter(m)}
      BY <1>t, <2>1 DEF Types
    <3>2. \A l : SeenAt(tx, fw_lvl[m], m, Len(tx) + 1, l) => l = LevelAfter(m)
      BY <1>t, LevelAfterFacts
    <3> QED BY <2>1, <3>1, <3>2 DEF LevelToAsk, LevelTold, Told
  <2>4. ASSUME NEW n \in Modules
        PROVE  LevelAsked(n)' /\ LevelAnswered(n)'
    <3>1. Flying(n) => Owner(n)' = Owner(n) /\ may_read'[Owner(n)] = may_read[Owner(n)]
      BY <1>f, <1>t, <2>1 DEF Owner, Types
    <3> QED BY <1>l, <1>t, <2>1, <3>1, ModuleFrame, QuietTx, QuietRx
  <2> QED BY <2>2, <2>3, <2>4 DEF Goal
\* The steps of a call that leave the queues alone.
<1>c. ASSUME NEW c \in Callers, UNCHANGED <<lvl, tx, rx, fw_lvl>>,
             \A d \in Callers : d # c =>
               /\ cpc'[d] = cpc[d] /\ arg'[d] = arg[d] /\ done'[d] = done[d]
               /\ may_read'[d] = may_read[d],
             ToAsk(c)' => ToAsk(c), Told(c)' => Told(c),
             cpc'[c] \in ReadPcs => arg'[c] = arg[c] /\ may_read'[c] = may_read[c],
             \A m \in Modules : Flying(m) =>
               /\ Owner(m)' = Owner(m)
               /\ may_read'[Owner(m)] = may_read[Owner(m)]
      PROVE  Goal
  <2>1. ASSUME NEW d \in Callers
        PROVE  LevelToAsk(d)' /\ LevelTold(d)'
    <3>1. ToAsk(d) => AskStays(arg[d].module, d)
      BY <1>c, <1>m, QuietTx
    <3>2. CASE d = c
      BY <1>l, <1>c, <3>1, <3>2, CallerFrame
    <3>3. CASE d # c
      BY <1>l, <1>c, <3>1, <3>3, CallerFrame DEF ToAsk, Told
    <3> QED BY <3>2, <3>3
  <2>2. ASSUME NEW n \in Modules
        PROVE  LevelAsked(n)' /\ LevelAnswered(n)'
    BY <1>l, <1>t, <1>c, ModuleFrame, QuietTx, QuietRx
  <2> QED BY <2>1, <2>2 DEF Goal
<1>6. ASSUME NEW c \in Callers, log_level_get_arm(c)
      PROVE  Goal
  <2>1. /\ cpc[c] = "arm" /\ cpc' = [cpc EXCEPT ![c] = "send"]
        /\ read_done' = [read_done EXCEPT ![arg[c].table][arg[c].module] = c]
        /\ UNCHANGED <<dentry, lvl, tx, rx, fw_lvl, arg, done, may_read>>
    BY <1>6 DEF log_level_get_arm, Goto, wireVars, histVars
  <2>2. ASSUME NEW n \in Modules, Flying(n)
        PROVE  Owner(n)' = Owner(n)
    <3>1. arg[c].module # n
      BY <1>a, <2>1, <2>2 DEF AnswerOwned, Active, ReadPcs
    <3>2. arg[c].table \in 1..MaxTables /\ arg[c].module \in Modules
      BY <1>r, <2>1 DEF ReadPcs
    <3> QED BY <1>f, <1>t, <2>1, <2>2, <3>1, <3>2 DEF Owner, Types
  <2>3. /\ \A d \in Callers : d # c => cpc'[d] = cpc[d]
        /\ ToAsk(c) /\ ~Told(c)'
    BY <1>t, <2>1 DEF Types, ToAsk, Told
  <2> QED BY <1>c, <2>1, <2>2, <2>3
<1>7. ASSUME NEW c \in Callers, Return(c), cpc[c] \in {"send", "return"},
             UNCHANGED <<enabled, tableVars, wireVars, again, overlap>>
      PROVE  Goal
  <2>1. /\ cpc' = [cpc EXCEPT ![c] = "idle"]
        /\ arg' = [arg EXCEPT ![c] = NoArg]
        /\ done' = [done EXCEPT ![c] = FALSE]
        /\ may_read' = [may_read EXCEPT ![c] = {}]
        /\ UNCHANGED <<dentry, read_done, lvl, tx, rx, fw_lvl>>
    BY <1>7 DEF Return, Goto, tableVars, wireVars
  <2>2. \A n \in Modules : Flying(n) =>
          /\ Owner(n)' = Owner(n) /\ Owner(n) # c
          /\ may_read'[Owner(n)] = may_read[Owner(n)]
    BY <1>7, <1>f, <1>t, <2>1 DEF Owner, Types
  <2>3. \A d \in Callers : d # c => /\ cpc'[d] = cpc[d] /\ arg'[d] = arg[d]
                                    /\ done'[d] = done[d] /\ may_read'[d] = may_read[d]
    BY <1>t, <2>1 DEF Types
  <2>4. cpc'[c] \notin ReadPcs /\ ~ToAsk(c)' /\ ~Told(c)'
    BY <1>t, <2>1 DEF Types, ReadPcs, ToAsk, Told
  <2> QED BY <1>c, <2>1, <2>2, <2>3, <2>4
<1>8. ASSUME NEW c \in Callers, log_level_get_send(c)
      PROVE  Goal
  <2>m. PICK m \in Modules : m = arg[c].module /\ arg[c].table = dentry[m]
    BY <1>r, <1>8 DEF log_level_get_send, ReadPcs
  <2> DEFINE r == [cmd |-> "GET", module |-> m]
  <2>1. /\ cpc[c] = "send" /\ cpc' = [cpc EXCEPT ![c] = "eval"]
        /\ tx' = Append(tx, r)
        /\ UNCHANGED <<dentry, read_done, lvl, rx, fw_lvl, arg, done, may_read>>
    BY <1>8, <2>m DEF log_level_get_send, Goto, tableVars, histVars
  <2>2. /\ r \in Requests
        /\ \A n \in Modules : r \notin Sets(n) /\ (r \in Gets(n) <=> n = m)
    <3>1. r \in Requests /\ r.cmd = "GET" /\ r.module = m
      BY NewRequests
    <3> HIDE DEF r
    <3> QED BY <3>1, RequestFacts
  <2> HIDE DEF r
  <2>3. /\ \A n \in Modules : n # m => GetStays(n)
        /\ \A n \in Modules, d \in Callers : AskStays(n, d)
        /\ \A n \in Modules : AnswerStays(n)
    BY <1>t, <2>1, <2>2, SendTx, QuietRx
  <2>4. Owner(m) = c /\ \A n \in Modules : Owner(n)' = Owner(n)
    BY <1>i, <2>m, <2>1 DEF Armed, Owner
  <2>5. ASSUME NEW d \in Callers
        PROVE  LevelToAsk(d)' /\ LevelTold(d)'
    <3>1. /\ ToAsk(d)' => ToAsk(d)
          /\ Told(d)' => Told(d)
      BY <1>i, <1>t, <2>1 DEF Types, ToAsk, Told, Armed
    <3> QED BY <1>l, <1>m, <2>1, <2>3, <3>1, CallerFrame
  <2>6. ASSUME NEW n \in Modules, n # m
        PROVE  LevelAsked(n)' /\ LevelAnswered(n)'
    BY <1>l, <2>1, <2>3, <2>4, <2>6, ModuleFrame
  <2>7. LevelAnswered(m)'
    BY <1>l, <2>1, <2>4 DEF LevelAnswered
  <2>8. ASSUME NEW i \in DOMAIN tx', tx'[i] \in Gets(m),
               NEW l, SeenAt(tx', fw_lvl[m], m, i, l)
        PROVE  l \in may_read[c]
    <3>1. /\ tx \in Seq(Requests) /\ Len(tx) \in Nat
          /\ DOMAIN tx = 1..Len(tx) /\ DOMAIN tx' = 1..(Len(tx) + 1)
          /\ \A k \in 1..Len(tx) : tx'[k] = tx[k]
      BY <1>t, <2>1, <2>2, AppendFacts DEF Types
    <3>2. ~Flying(m)
      BY <1>f, <2>1, <2>4
    <3>3. i = Len(tx) + 1
      BY <2>8, <3>1, <3>2 DEF Flying, Holds
    <3>4. SeenAt(tx, fw_lvl[m], m, Len(tx) + 1, l)
      BY <2>1, <2>2, <2>8, <3>1, <3>3, SeenAppend
    <3> QED BY <1>l, <2>m, <2>1, <3>4 DEF LevelToAsk, ToAsk
  <2>9. LevelAsked(m)'
    BY <2>1, <2>4, <2>8 DEF LevelAsked
  <2> QED BY <2>5, <2>6, <2>7, <2>9 DEF Goal
<1>9. ASSUME NEW c \in Callers, log_level_get_wait(c)
      PROVE  Goal
  <2>1. /\ cpc[c] = "eval" /\ cpc' = [cpc EXCEPT ![c] = "wait"]
        /\ UNCHANGED <<dentry, read_done, lvl, tx, rx, fw_lvl, arg, done, may_read>>
    BY <1>9 DEF log_level_get_wait, Goto, tableVars, wireVars, histVars
  <2>2. /\ \A d \in Callers : d # c => cpc'[d] = cpc[d]
        /\ ~ToAsk(c)' /\ (Told(c)' => Told(c))
        /\ \A n \in Modules : Owner(n)' = Owner(n)
    BY <1>t, <2>1 DEF Types, ToAsk, Told, Owner
  <2> QED BY <1>c, <2>1, <2>2
<1>10. ASSUME NEW c \in Callers, wait_for_completion(c)
       PROVE  Goal
  <2>1. /\ cpc[c] = "wait" /\ cpc' = [cpc EXCEPT ![c] = "return"]
        /\ done[c] /\ done' = [done EXCEPT ![c] = FALSE]
        /\ UNCHANGED <<dentry, read_done, lvl, tx, rx, fw_lvl, arg, may_read>>
    BY <1>i, <1>10 DEF wait_for_completion, Goto, tableVars, wireVars,
       histVars, Armed
  <2>2. /\ \A d \in Callers : d # c => cpc'[d] = cpc[d] /\ done'[d] = done[d]
        /\ ~ToAsk(c)' /\ Told(c)
        /\ \A n \in Modules : Owner(n)' = Owner(n)
    BY <1>t, <2>1 DEF Types, ToAsk, Told, Owner
  <2> QED BY <1>c, <2>1, <2>2
<1>11. CASE parse_get_log_lvl_response
  <2>1. /\ rx # <<>> /\ Head(rx).cmd = "GET" /\ rx' \in {rx, Tail(rx)}
        /\ UNCHANGED <<dentry, read_done, tx, fw_lvl, cpc, arg, done, may_read>>
    BY <1>11 DEF parse_get_log_lvl_response, Receive, callerVars, histVars
  <2>0. 1 \in DOMAIN rx /\ rx[1] = Head(rx) /\ Head(rx) \in Answers
    BY <1>t, <2>1, TailFacts, SMTT(20) DEF Types
  <2>m. PICK m \in Modules : m = Head(rx).module
    BY <2>0, <2>1, AnswerFacts
  <2>2. Flying(m)
    <3>1. Head(rx) \in Gets(m)
      BY <2>0, <2>1, <2>m, AnswerFacts
    <3> QED BY <2>0, <3>1 DEF Flying, Holds
  <2>3. /\ log_modules = dentry[m] /\ log_modules \in 1..MaxTables
        /\ Owner(m) \in Callers
        /\ cpc[Owner(m)] \in {"eval", "wait"} /\ ~done[Owner(m)]
        /\ \A d \in Callers : Active(d) /\ arg[d].module = m => d = Owner(m)
    BY <1>a, <1>f, <1>i, <2>2, SMTT(20) DEF AnswerOwned, OneTable
  <2>4. \A t \in 1..MaxTables, n \in Modules : n # m => lvl'[t][n] = lvl[t][n]
    <3>1. lvl' = [lvl EXCEPT ![log_modules][m] = Head(rx).lvl]
      BY <1>11, <2>m, <2>3 DEF parse_get_log_lvl_response
    <3> QED BY <1>t, <2>3, <3>1 DEF Types
  <2>5. \A n \in Modules : Owner(n)' = Owner(n)
    BY <2>1 DEF Owner
  <2>6. ASSUME NEW n \in Modules
        PROVE  LevelAsked(n)' /\ LevelAnswered(n)'
    BY <1>l, <1>t, <2>1, <2>5, ModuleFrame, QuietTx, QuietRx
  <2>7. ASSUME NEW d \in Callers
        PROVE  LevelToAsk(d)' /\ LevelTold(d)'
    <3>1. ToAsk(d) => AskStays(arg[d].module, d)
      BY <1>m, <2>1, QuietTx
    <3>2. ASSUME Told(d)
          PROVE  lvl'[arg[d].table][arg[d].module] = lvl[arg[d].table][arg[d].module]
      <4>1. Active(d) /\ d # Owner(m)
        BY <2>3, <3>2 DEF Told, Active, ReadPcs
      <4>2. arg[d].module # m /\ arg[d].module \in Modules
            /\ arg[d].table \in 1..MaxTables
        BY <1>r, <2>3, <4>1 DEF Active
      <4> QED BY <2>4, <4>2
    <3>3. (ToAsk(d)' <=> ToAsk(d)) /\ (Told(d)' <=> Told(d))
      BY <2>1 DEF ToAsk, Told
    <3> QED BY <1>l, <2>1, <3>1, <3>2, <3>3, CallerFrame
  <2> QED BY <2>6, <2>7 DEF Goal
<1>18. CASE complete_read_done
  <2>1. /\ rx # <<>> /\ rx' = Tail(rx) /\ Head(rx).cmd = "GET"
        /\ UNCHANGED <<dentry, read_done, lvl, tx, fw_lvl, cpc, arg, may_read>>
    BY <1>18 DEF complete_read_done, StoredInv, histVars
  <2>0. Head(rx) \in Answers
    BY <1>t, <2>1, Received
  <2>m. PICK m \in Modules : m = Head(rx).module
    BY <2>0, <2>1, AnswerFacts
  <2>2. Head(rx) \in Gets(m) /\ Flying(m)
    <3>1. Head(rx) \in Gets(m)
      BY <2>0, <2>1, <2>m, AnswerFacts
    <3>2. Holds(rx, Gets(m))
      BY <1>t, <2>1, <3>1, Received
    <3> QED BY <3>1, <3>2 DEF Flying
  <2>3. Head(rx).lvl \in may_read[Owner(m)]
    <3>1. 1 \in DOMAIN rx /\ rx[1] = Head(rx)
      BY <1>t, <2>1, TailFacts, SMTT(20) DEF Types
    <3> QED BY <1>l, <2>2, <3>1 DEF LevelAnswered
  <2>4. /\ log_modules = dentry[m] /\ log_modules \in 1..MaxTables
        /\ Owner(m) = read_done[log_modules][m]
        /\ Owner(m) \in Callers /\ arg[Owner(m)].module = m
        /\ cpc[Owner(m)] \in {"eval", "wait"}
        /\ \A d \in Callers : Active(d) /\ arg[d].module = m => d = Owner(m)
    BY <1>a, <1>f, <1>i, <2>2, SMTT(20) DEF AnswerOwned, OneTable, Owner
  <2>5. done' = [done EXCEPT ![Owner(m)] = TRUE]
    <3>1. read_done[log_modules][m] # None
      BY <2>4, ConstantsAssumption
    <3> QED BY <1>18, <2>m, <2>4, <3>1 DEF complete_read_done, ReadDone
  <2>6. lvl'[log_modules][m] = Head(rx).lvl
    BY <1>18, <2>1, <2>m DEF complete_read_done, StoredInv
  <2>7. \A n \in Modules : Owner(n)' = Owner(n)
    BY <2>1 DEF Owner
  <2>8. ASSUME NEW n \in Modules
        PROVE  LevelAsked(n)' /\ LevelAnswered(n)'
    BY <1>l, <1>t, <2>1, <2>7, ModuleFrame, QuietTx, QuietRx
  <2>9. ASSUME NEW d \in Callers, d # Owner(m)
        PROVE  LevelToAsk(d)' /\ LevelTold(d)'
    <3>1. done'[d] = done[d]
      BY <1>t, <2>4, <2>5, <2>9 DEF Types
    <3>2. ToAsk(d) => AskStays(arg[d].module, d)
      BY <1>m, <2>1, QuietTx
    <3>4. (ToAsk(d)' <=> ToAsk(d)) /\ (Told(d)' <=> Told(d))
      BY <2>1, <3>1 DEF ToAsk, Told
    <3> QED BY <1>l, <2>1, <3>2, <3>4, CallerFrame
  <2>10. ASSUME NEW c \in Callers, c = Owner(m)
         PROVE  LevelToAsk(c)' /\ LevelTold(c)'
    <3>1. arg[c].table = log_modules
      BY <1>r, <2>4, <2>10 DEF ReadPcs
    <3>2. /\ arg'[c].module = m /\ arg'[c].table = log_modules
          /\ lvl'[log_modules][m] \in may_read'[c]
          /\ ~ToAsk(c)'
      BY <2>1, <2>3, <2>4, <2>6, <2>10, <3>1 DEF ToAsk
    <3> QED BY <3>2 DEF LevelToAsk, LevelTold
  <2> QED BY <2>8, <2>9, <2>10 DEF Goal
<1>12. ASSUME NEW ok \in BOOLEAN, parse_log_sources_response(ok)
       PROVE  Goal
  <2>1. /\ UNCHANGED <<dentry, read_done, lvl, cpc, arg, done, tx, fw_lvl, may_read>>
        /\ rx # <<>> /\ rx' \in {rx, Tail(rx)}
    BY <1>12 DEF parse_log_sources_response, Receive, callerVars, histVars
  <2>2. \A m \in Modules : Owner(m)' = Owner(m)
    BY <2>1 DEF Owner
  <2> QED BY <1>q, <1>m, <1>t, <2>1, <2>2, QuietTx, QuietRx
<1>13. ASSUME NEW m \in Modules, debug_create_module_entry(m)
       PROVE  Goal
  <2>1. /\ UNCHANGED <<read_done, cpc, arg, done, tx, fw_lvl, may_read>>
        /\ rx # <<>> /\ rx' \in {rx, Tail(rx)}
        /\ \A n \in Modules : dentry[n] # 0 => dentry'[n] = dentry[n]
    BY <1>13, <1>t DEF debug_create_module_entry, callerVars, histVars, Scoped,
       Types
  <2>2. dentry[m] = 0
    BY <1>13, <1>i DEF debug_create_module_entry, OneTable
  <2>3. \A t \in 1..MaxTables, n \in Modules : n # m => lvl'[t][n] = lvl[t][n]
    BY <1>13, <1>t DEF debug_create_module_entry, Types
  <2>4. \A c \in Callers : cpc[c] \in ReadPcs =>
          lvl'[arg[c].table][arg[c].module] = lvl[arg[c].table][arg[c].module]
    BY <1>r, <2>2, <2>3
  <2>5. \A n \in Modules : Flying(n) => Owner(n)' = Owner(n)
    BY <1>f, <2>1 DEF Owner
  <2> QED BY <1>q, <1>m, <1>t, <2>1, <2>4, <2>5, QuietTx, QuietRx
<1>14. CASE FwServe
  <2>1. /\ UNCHANGED <<dentry, read_done, lvl, cpc, arg, done, may_read>>
        /\ tx # <<>> /\ tx' = Tail(tx) /\ Head(tx) \in Requests
    BY <1>14, <1>t, Served DEF FwServe, tableVars, callerVars, histVars
  <2>2. \A m \in Modules : Owner(m)' = Owner(m)
    BY <2>1 DEF Owner
  <2>3. ASSUME NEW m \in Modules
        PROVE  \/ Head(tx) \notin Sets(m) /\ fw_lvl'[m] = fw_lvl[m]
               \/ Head(tx) \in Sets(m) /\ fw_lvl'[m] = Head(tx).lvl
    <3>1. Head(tx) \in Sets(m) <=> Head(tx).cmd = "SET" /\ Head(tx).module = m
      BY <2>1, RequestFacts
    <3> QED BY <1>14, <1>t, <3>1, Served DEF Types
  <2>4. ASSUME NEW m \in Modules
        PROVE  GetStays(m) /\ \A c \in Callers : AskStays(m, c)
    BY <1>t, <2>1, <2>3, TakeTx
  <2> QED BY <1>q, <1>m, <1>t, <1>14, <2>1, <2>2, <2>4, ServeRx
<1>15. CASE LoseRequest
  <2>1. /\ UNCHANGED <<dentry, read_done, lvl, cpc, arg, done, rx, fw_lvl>>
        /\ tx # <<>> /\ tx' = Tail(tx)
        /\ may_read' = [c \in Callers |->
                    IF Head(tx).cmd = "SET" /\ arg[c].module = Head(tx).module
                      THEN may_read[c] \cup {fw_lvl[arg[c].module]}
                      ELSE may_read[c]]
    BY <1>15 DEF LoseRequest, tableVars, callerVars
  <2>2. \A m \in Modules : Owner(m)' = Owner(m)
    BY <2>1 DEF Owner
  <2>3. ASSUME NEW m \in Modules, Head(tx) \in Sets(m),
               NEW c \in Callers, arg[c].module = m
        PROVE  fw_lvl[m] \in may_read'[c]
    <3>1. Head(tx).cmd = "SET" /\ Head(tx).module = m
      BY <2>3 DEF Sets
    <3> QED BY <2>1, <2>3, <3>1
  <2>4. ASSUME NEW m \in Modules
        PROVE  /\ GetStays(m)
               /\ \A c \in Callers : arg[c].module = m => AskStays(m, c)
    <3>1. Holds(tx, Gets(m)) => Owner(m) \in Callers /\ arg[Owner(m)].module = m
      BY <1>f DEF Flying
    <3> QED BY <1>t, <2>1, <2>3, <3>1, TakeTx
  <2>5. \A d \in Callers : may_read[d] \subseteq may_read'[d]
    BY <2>1
  <2> QED BY <1>q, <1>m, <1>t, <2>1, <2>2, <2>4, <2>5, QuietRx
<1>16. CASE LoseAnswer
  <2>1. /\ UNCHANGED <<dentry, read_done, lvl, cpc, arg, done, tx, fw_lvl, may_read>>
        /\ rx # <<>> /\ rx' = Tail(rx)
    BY <1>16 DEF LoseAnswer, tableVars, callerVars, histVars
  <2>2. \A m \in Modules : Owner(m)' = Owner(m)
    BY <2>1 DEF Owner
  <2> QED BY <1>q, <1>m, <1>t, <2>1, <2>2, QuietTx, QuietRx
<1>17. CASE UNCHANGED vars
  <2>1. UNCHANGED <<dentry, read_done, lvl, cpc, arg, done, tx, rx, fw_lvl, may_read>>
    BY <1>17 DEF vars, tableVars, callerVars, wireVars, histVars
  <2>2. \A m \in Modules : Owner(m)' = Owner(m)
    BY <2>1 DEF Owner
  <2> QED BY <1>q, <1>m, <1>t, <2>1, <2>2, QuietTx, QuietRx
<1> QED
  BY <1>1, <1>2, <1>3, <1>4, <1>5, <1>6, <1>7, <1>8, <1>9, <1>10, <1>11, <1>12,
     <1>13, <1>14, <1>15, <1>16, <1>17, <1>18
  DEF Next, Caller, CallRuns, Thread, Firmware,
      log_level_get_refused, log_level_get_return

-----------------------------------------------------------------------------
(***************************************************************************)
(* The theorems.                                                           *)
(***************************************************************************)

IInv == TypeInv /\ StoredInv /\ SourceInv /\ ReadInv /\ LevelInv

LEMMA IInvIsInvariant == Spec => []IInv
<1>1. Init => IInv
  <2>1. Init => StoredInv
    BY DEF Init, StoredInv
  <2> QED BY <2>1, TypeInit, SourceInit, ReadInit, LevelInit DEF IInv
<1>2. IInv /\ [Next]_vars => IInv'
  <2> SUFFICES ASSUME IInv, [Next]_vars PROVE IInv'
    OBVIOUS
  <2>1. TypeInv' /\ StoredInv'
    BY TypeStep, StoredStep DEF IInv
  <2>2. SourceInv' /\ ReadInv' /\ LevelInv'
    BY <2>1, SourceStep, ReadStep, LevelStep DEF IInv
  <2> QED BY <2>1, <2>2 DEF IInv
<1> QED BY <1>1, <1>2, PTL DEF Spec

\* debugfs files, calls and answers never refer to a log module of a table
\* that parse_log_sources_response has freed, or could not allocate, as long
\* as enable does not ask for the sources twice.
THEOREM ModulesAreSafe == Spec => []ModulesAreLive
<1>1. IInv => ModulesAreLive
  <2> SUFFICES ASSUME IInv, ~again
               PROVE  /\ \A m \in Modules : dentry[m] # 0 => Live(dentry[m])
                      /\ \A c \in Callers : arg[c].table # 0 => Live(arg[c].table)
                      /\ \A i \in DOMAIN rx : rx[i].cmd = "GET" => Live(log_modules)
    BY DEF ModulesAreLive
  <2>1. Types /\ Scoped /\ OneTable
    BY DEF IInv, TypeInv, SourceInv
  <2>2. \A m \in Modules : dentry[m] # 0 => dentry[m] = tables /\ Live(tables)
    BY <2>1 DEF OneTable, Types, Live
  <2>3. ASSUME NEW c \in Callers, arg[c].table # 0
        PROVE  Live(arg[c].table)
    <3>1. arg[c].module \in Modules /\ arg[c].table = dentry[arg[c].module]
      BY <2>1, <2>3, ArgFacts DEF Types, Scoped
    <3> QED BY <2>2, <2>3, <3>1
  <2>4. ASSUME NEW i \in DOMAIN rx, rx[i].cmd = "GET"
        PROVE  Live(log_modules)
    <3>1. rx[i] \in Answers
      BY <2>1 DEF Types
    <3>2. PICK m \in Modules : rx[i] \in Gets(m)
      BY <2>4, <3>1, AnswerFacts
    <3>3. dentry[m] # 0
      BY <2>1, <3>2 DEF Scoped, Holds
    <3> QED BY <2>1, <2>2, <3>3 DEF OneTable
  <2> QED BY <2>2, <2>3, <2>4
<1> QED BY <1>1, IInvIsInvariant, PTL

\* complete() in parse_get_log_lvl_response never runs on the stack frame of a
\* call that has returned, as long as calls on a module do not overlap.
THEOREM CompletionIsSafe == Spec => []CompletionIsAlive
<1>1. IInv => CompletionIsAlive
  <2> SUFFICES ASSUME IInv, ~overlap, NEW i \in DOMAIN rx, rx[i].cmd = "GET",
                      log_modules # 0,
                      read_done[log_modules][rx[i].module] # None
               PROVE  InCall(read_done[log_modules][rx[i].module], rx[i].module)
    BY DEF CompletionIsAlive
  <2>1. Types /\ PointersHaveFiles /\ \A m \in Modules : AnswerOwned(m)
    BY OneAnswerParts DEF IInv, TypeInv, ReadInv
  <2>2. rx[i] \in Answers /\ log_modules \in 1..MaxTables
    BY <2>1 DEF Types
  <2>3. rx[i].module \in Modules /\ rx[i] \in Gets(rx[i].module)
    BY <2>2, AnswerFacts
  <2>4. Flying(rx[i].module)
    BY <2>3 DEF Flying, Holds
  <2>5. dentry[rx[i].module] = log_modules
    BY <2>1, <2>2, <2>3 DEF PointersHaveFiles
  <2> QED BY <2>1, <2>3, <2>4, <2>5 DEF AnswerOwned, Owner, InCall
<1> QED BY <1>1, IInvIsInvariant, PTL

\* What log_level_get returns is the level that the firmware has after the
\* requests accepted before the call, or one set during the call.
THEOREM LevelIsSafe == Spec => []LevelIsCurrent
<1>1. IInv => LevelIsCurrent
  BY DEF IInv, LevelInv, LevelIsCurrent, LevelTold, Told
<1> QED BY <1>1, IInvIsInvariant, PTL

=============================================================================
