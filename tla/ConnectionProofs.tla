---------------------------- MODULE ConnectionProofs ----------------------------
(***************************************************************************)
(* Proofs about module Connection, for every set of options, every command *)
(* line and every size of segments.                                        *)
(*                                                                         *)
(* What the properties say of the line that was typed is not inductive.    *)
(* The invariant says it of argv, whatever it holds (Sliced and Covered),  *)
(* and separately that a line that comes in one segment is argv            *)
(* (Delivered), for which it has to know how far the stream is in each     *)
(* phase of the client and of the daemon (Phases).                         *)
(***************************************************************************)
EXTENDS Connection, SequenceTheorems, TLAPS

Fresh == argv = <<>> /\ i = 1 /\ calls = <<>> /\ ~ answered

Phases ==
    /\ client = "setup" => sent = 0
    /\ client = "argv" => sent > 0
    /\ Fits => sent \in {0, 1, Total}
    /\ link = "backlog" => Fresh /\ daemon \in {"idle", "deaf"} /\ read = 0
    /\ daemon = "setup" => Fresh /\ read = 0
    /\ daemon = "header" => Fresh /\ read = 1
    /\ daemon = "words" => Fresh /\ read = 2
    /\ daemon \in {"setup", "header", "words"} => cwd = "/"
    /\ link = "none" => Fresh /\ read = 0 /\ daemon \in {"idle", "deaf"}
    /\ daemon \in {"setup", "header", "words", "run", "blocked"} => link = "open"

Sliced ==
    /\ \A k \in DOMAIN calls :
          /\ After(calls[k]) <= Len(argv) + 1
          /\ argv[calls[k].cmd] \in Options
          /\ \A p \in calls[k].cmd + 1 .. After(calls[k]) - 1 : argv[p] \notin Options
    /\ \A k \in DOMAIN calls : k + 1 \in DOMAIN calls =>
          calls[k + 1].cmd = After(calls[k])
    /\ calls # <<>> => After(calls[Len(calls)]) = i
    /\ calls # <<>> /\ i <= Len(argv) => argv[i] \in Options
    /\ calls # <<>> => \A p \in 1 .. calls[1].cmd - 1 : argv[p] \notin Options
    /\ calls = <<>> => \A p \in 1 .. i - 1 : argv[p] \notin Options

Covered ==
    \A p \in 1 .. i - 1 : argv[p] \in Options => \E k \in DOMAIN calls : calls[k].cmd = p

Delivered ==
    /\ Fits /\ (daemon \in {"run", "blocked"} \/ argv # <<>> \/ answered) => argv = line
    /\ answered => i > Len(argv)
    /\ client = "success" => answered

IInv == TypeOK /\ Phases /\ Sliced /\ Covered /\ Delivered /\ OnlyPaddingIsKept

-----------------------------------------------------------------------------
(* What becomes of the descriptors. *)
LEMMA ClosedIs ==
    ASSUME NEW leaked \in Nat, leaked <= MaxLeaked
    PROVE  /\ Closed(leaked) \in [Named \cup {"padding"} -> Nat]
           /\ Closed(leaked)["padding"] <= MaxLeaked
           /\ \A f \in DOMAIN Closed(leaked) \ {"padding"} : Closed(leaked)[f] = 0
BY DEF Closed

LEMMA NothingIsOpen ==
    /\ Closed(0) \in [Named \cup {"padding"} -> Nat]
    /\ Closed(0)["padding"] <= MaxLeaked
<1>1. 0 \in Nat /\ 0 <= MaxLeaked
  BY ConnectionAssumption
<1>2. QED
  BY <1>1, ClosedIs

LEMMA ClosesIs ==
    ASSUME TypeOK, Closes
    PROVE  /\ open' \in [Named \cup {"padding"} -> Nat]
           /\ open'["padding"] <= MaxLeaked
           /\ \A f \in DOMAIN open' \ {"padding"} : open'[f] = 0
           /\ daemon' \in {"idle", "lost"}
<1>1. open["padding"] \in Nat /\ open["padding"] <= MaxLeaked /\ MaxLeaked \in Nat
  BY ConnectionAssumption DEF TypeOK
<1>2. PICK leaked \in 0 .. open["padding"] : open' = Closed(leaked)
  BY <1>1 DEF Closes
<1>3. leaked \in Nat /\ leaked <= MaxLeaked
  BY <1>1
<1>4. QED
  BY <1>2, <1>3, ClosedIs DEF Closes

LEMMA ReceivedIs ==
    ASSUME TypeOK, RecvSetup, ~ RecvFails
    PROVE  open' \in [Named \cup {"padding"} -> Nat] /\ open'["padding"] <= MaxLeaked
<1>1. /\ open \in [Named \cup {"padding"} -> Nat] /\ open["padding"] <= MaxLeaked
      /\ MaxLeaked \in Nat
  BY ConnectionAssumption DEF TypeOK
<1>2. PICK fds \in Arriving, padding \in Paddings :
         open' = [f \in Named \cup {"padding"} |->
                    IF f \in fds \/ (f = "padding" /\ padding = "open" /\ ~ Full)
                    THEN open[f] + 1 ELSE open[f]]
  BY DEF RecvSetup
<1>3. "padding" \notin fds
  BY DEF Arriving, Fds
<1>4. QED
  BY <1>1, <1>2, <1>3 DEF Full

LEMMA WordsAreASequence ==
    ASSUME NEW n \in Nat, NEW words \in [1 .. n -> Words]
    PROVE  words \in Seq(Words) /\ Len(words) = n
BY SeqDef

LEMMA InitIsSound == Init => IInv
<1> SUFFICES ASSUME Init PROVE IInv
  OBVIOUS
<1>1. TypeOK
  <2>1. /\ line \in Seq(Words) /\ Len(line) = 0 /\ argv \in Seq(Words) /\ Len(argv) = 0
        /\ calls \in Seq([cmd : Nat \ {0}, argc : Nat])
    BY DEF Init
  <2>2. read \in 0 .. sent /\ sent \in 0 .. Total /\ i \in 1 .. Len(argv) + 1
    BY <2>1, ConnectionAssumption DEF Init, Total
  <2>3. open \in [Named \cup {"padding"} -> Nat] /\ open["padding"] <= MaxLeaked
    BY ConnectionAssumption DEF Init
  <2>4. QED
    BY <2>1, <2>2, <2>3 DEF Init, TypeOK, Gone
<1>2. Phases /\ Sliced /\ Covered /\ Delivered /\ OnlyPaddingIsKept
  BY ConnectionAssumption
     DEF Init, Phases, Fresh, Fits, Total, Sliced, Covered, Delivered, OnlyPaddingIsKept
<1>3. QED
  BY <1>1, <1>2 DEF IInv

-----------------------------------------------------------------------------
(* Steps that leave the words and the parser alone, once they are sound. *)
LEMMA ParserStays ==
    ASSUME Sliced, Covered, UNCHANGED parserVars
    PROVE  Sliced' /\ Covered'
<1>1. argv' = argv /\ i' = i /\ calls' = calls
  BY DEF parserVars
<1>2. QED
  BY <1>1 DEF Sliced, Covered, After

(* An empty array has no slices. *)
LEMMA ParserStarts ==
    ASSUME i' = 1, calls' = <<>>
    PROVE  Sliced' /\ Covered'
BY DEF Sliced, Covered

(* One call of a handler. *)
LEMMA ParserRuns ==
    ASSUME TypeOK, Sliced, Covered, Run
    PROVE  /\ Sliced' /\ Covered' /\ argv' = argv
           /\ calls' \in Seq([cmd : Nat \ {0}, argc : Nat]) /\ i' \in 1 .. Len(argv) + 1
<1> DEFINE T == [cmd : Nat \ {0}, argc : Nat]
<1>1. /\ argv \in Seq(Words) /\ i \in 1 .. Len(argv) + 1 /\ calls \in Seq(T)
      /\ Len(argv) \in Nat /\ Len(calls) \in Nat
  BY DEF TypeOK
<1>2. PICK j \in i + 1 .. Len(argv) + 1 :
         EndsAt(i, j) /\ calls' = Append(calls, [cmd |-> i, argc |-> j - (i + 1)]) /\ i' = j
  BY DEF Run
<1>3. argv' = argv /\ argv[i] \in Options /\ i <= Len(argv)
  BY DEF Run
<1> DEFINE call == [cmd |-> i, argc |-> j - (i + 1)]
           n == Len(calls)
<1>4. call \in T /\ call.cmd = i /\ After(call) = j
  BY <1>1, <1>2 DEF After
<1>5. calls' \in Seq(T) /\ Len(calls') = n + 1 /\ calls'[n + 1] = call
      /\ (\A k \in 1 .. n : calls'[k] = calls[k])
      /\ DOMAIN calls' = 1 .. n + 1 /\ DOMAIN calls = 1 .. n
  BY <1>1, <1>2, <1>4
<1>6. n \in Nat /\ DOMAIN calls = 1 .. n
  BY <1>1
<1> HIDE DEF call, T, n
<1>7. ASSUME NEW k \in DOMAIN calls'
      PROVE  /\ After(calls'[k]) <= Len(argv') + 1
             /\ argv'[calls'[k].cmd] \in Options
             /\ \A p \in calls'[k].cmd + 1 .. After(calls'[k]) - 1 : argv'[p] \notin Options
  <2>1. CASE k = n + 1
    BY <1>2, <1>3, <1>4, <1>5, <2>1 DEF EndsAt
  <2>2. CASE k \in 1 .. n
    BY <1>3, <1>5, <2>2 DEF Sliced
  <2>3. QED
    BY <1>5, <1>6, <1>7, <2>1, <2>2
<1>8. ASSUME NEW k \in DOMAIN calls', k + 1 \in DOMAIN calls'
      PROVE  calls'[k + 1].cmd = After(calls'[k])
  <2>1. CASE k = n
    <3>1. n \in 1 .. n /\ calls # <<>>
      BY <1>6, <1>8, <2>1 DEF n
    <3>2. After(calls[n]) = i
      BY <3>1 DEF Sliced, n
    <3>3. QED
      BY <1>4, <1>5, <2>1, <3>1, <3>2
  <2>2. CASE k \in 1 .. n - 1
    <3>1. k \in DOMAIN calls /\ k + 1 \in DOMAIN calls
      BY <1>5, <1>6, <2>2
    <3>2. calls[k + 1].cmd = After(calls[k])
      BY <3>1 DEF Sliced
    <3>3. QED
      BY <1>5, <3>1, <3>2
  <2>3. QED
    BY <1>5, <1>6, <1>8, <2>1, <2>2
<1>9. After(calls'[Len(calls')]) = i'
  BY <1>2, <1>4, <1>5
<1>10. \A p \in 1 .. calls'[1].cmd - 1 : argv'[p] \notin Options
  <2>1. CASE calls = <<>>
    <3>1. n = 0 /\ calls'[1] = call
      BY <1>5, <1>6, <2>1 DEF n
    <3>2. QED
      BY <1>3, <1>4, <2>1, <3>1 DEF Sliced
  <2>2. CASE calls # <<>>
    <3>1. 1 \in 1 .. n
      BY <1>1, <1>6, <2>2 DEF n
    <3>2. QED
      BY <1>3, <1>5, <2>2, <3>1 DEF Sliced
  <2>3. QED
    BY <2>1, <2>2
<1>11. i' <= Len(argv') => argv'[i'] \in Options
  BY <1>2, <1>3 DEF EndsAt
<1>12. Sliced'
  <2>1. calls' # <<>>
    BY <1>5, <1>6
  <2>2. QED
    BY <1>7, <1>8, <1>9, <1>10, <1>11, <2>1 DEF Sliced, After
<1>13. ASSUME NEW p \in 1 .. i' - 1, argv'[p] \in Options
       PROVE  \E k \in DOMAIN calls' : calls'[k].cmd = p
  <2>1. CASE p < i
    <3>1. PICK k \in DOMAIN calls : calls[k].cmd = p
      <4>1. p \in 1 .. i - 1 /\ argv[p] \in Options
        BY <1>1, <1>2, <1>3, <1>13, <2>1
      <4>2. QED
        BY <4>1 DEF Covered
    <3>2. k \in DOMAIN calls' /\ calls'[k] = calls[k]
      BY <1>5, <1>6
    <3>3. QED
      BY <3>1, <3>2
  <2>2. CASE p = i
    <3>1. n + 1 \in DOMAIN calls' /\ calls'[n + 1].cmd = p
      BY <1>4, <1>5, <1>6, <2>2
    <3>2. QED
      BY <3>1
  <2>3. CASE p > i
    BY <1>1, <1>2, <1>3, <1>13, <2>3 DEF EndsAt
  <2>4. QED
    BY <1>1, <1>2, <2>1, <2>2, <2>3
<1>14. Covered'
  BY <1>13 DEF Covered
<1>15. QED
  BY <1>1, <1>2, <1>3, <1>5, <1>12, <1>14 DEF T

(* A word that is no option is passed over, before the first call only. *)
LEMMA ParserSkips ==
    ASSUME TypeOK, Sliced, Covered, Skip
    PROVE  Sliced' /\ Covered' /\ i' \in 1 .. Len(argv) + 1
<1>1. /\ i \in 1 .. Len(argv) + 1 /\ Len(argv) \in Nat
      /\ i <= Len(argv) /\ argv[i] \notin Options /\ i' = i + 1
      /\ argv' = argv /\ calls' = calls
  BY DEF TypeOK, Skip
<1>2. calls = <<>>
  BY <1>1 DEF Sliced
<1>3. \A p \in 1 .. i' - 1 : argv'[p] \notin Options
  BY <1>1, <1>2 DEF Sliced
<1>4. Sliced' /\ Covered'
  BY <1>1, <1>2, <1>3 DEF Sliced, Covered
<1>5. QED
  BY <1>1, <1>4

-----------------------------------------------------------------------------
LEMMA ParserIsSound ==
    ASSUME TypeOK, Phases, Sliced, Covered, [Next]_vars
    PROVE  Sliced' /\ Covered'
<1>1. CASE Connect
  BY <1>1, ParserStarts DEF Connect
<1>2. CASE SendSetup \/ SendArgv \/ RecvStatus \/ Kill \/ Accept
  BY <1>2, ParserStays
     DEF SendSetup, SendArgv, RecvStatus, Kill, Accept, Fails, parserVars
<1>9. CASE Exhausted \/ Resume
  BY <1>9, ParserStays DEF Exhausted, Resume, parserVars
<1>3. CASE RecvSetup \/ RecvHeader \/ NoMemory \/ Crash \/ Answer
  BY <1>3, ParserStays
     DEF RecvSetup, RecvHeader, NoMemory, RecvFails, HangUp, Crash, Answer, parserVars
<1>4. CASE RecvWords
  <2>1. CASE UNCHANGED parserVars
    BY <2>1, ParserStays
  <2>2. CASE UNCHANGED <<i, calls>>
    <3>1. i = 1 /\ calls = <<>>
      BY <1>4 DEF RecvWords, Phases, Fresh
    <3>2. QED
      BY <2>2, <3>1, ParserStarts
  <2>3. QED
    BY <1>4, <2>1, <2>2 DEF RecvWords, RecvFails, HangUp
<1>5. CASE Skip
  BY <1>5, ParserSkips
<1>6. CASE Run
  BY <1>6, ParserRuns
<1>7. CASE UNCHANGED vars
  BY <1>7, ParserStays DEF vars
<1>8. QED
  BY <1>1, <1>2, <1>3, <1>4, <1>5, <1>6, <1>7, <1>9 DEF Next

-----------------------------------------------------------------------------
LEMMA TypesStay ==
    ASSUME TypeOK, Phases, Sliced, Covered, [Next]_vars
    PROVE  TypeOK'
<1> USE ConnectionAssumption
<1>1. CASE Connect
  <2>1. PICK n \in 0 .. MaxWords : \E words \in [1 .. n -> Words] :
           line' = IF words = <<>> THEN <<Help>> ELSE words
    BY <1>1 DEF Connect
  <2>2. PICK words \in [1 .. n -> Words] :
           line' = IF words = <<>> THEN <<Help>> ELSE words
    BY <2>1
  <2>3. words \in Seq(Words) /\ <<Help>> \in Seq(Words)
    BY WordsAreASequence DEF Words
  <2>4. line' \in Seq(Words)
    BY <2>2, <2>3
  <2>5. /\ Len(line') \in Nat /\ sent' = 0 /\ read' = 0 /\ i' = 1 /\ argv' = <<>> /\ calls' = <<>>
        /\ answered' = FALSE /\ client' = "setup" /\ link' = "backlog"
        /\ UNCHANGED <<daemon, open, cwd>>
    BY <1>1, <2>4 DEF Connect
  <2>6. (read \in 0 .. sent /\ sent \in 0 .. Total /\ i \in 1 .. Len(argv) + 1)'
    BY <2>5 DEF Total
  <2>7. (argv \in Seq(Words) /\ calls \in Seq([cmd : Nat \ {0}, argc : Nat]))'
    BY <2>5
  <2>8. QED
    BY <2>4, <2>5, <2>6, <2>7 DEF TypeOK, Gone
<1>2. CASE SendSetup
  BY <1>2 DEF SendSetup, Fails, TypeOK, Phases, Gone, Total, parserVars
<1>3. CASE SendArgv
  BY <1>3 DEF SendArgv, Fails, TypeOK, Gone, Total, parserVars
<1>4. CASE RecvStatus \/ Kill
  BY <1>4 DEF RecvStatus, Kill, TypeOK, Gone, Total, wireVars, parserVars
<1>5. CASE Accept
  <2>1. open' \in [Named \cup {"padding"} -> Nat] /\ open'["padding"] <= MaxLeaked
    <3>1. open \in [Named \cup {"padding"} -> Nat] /\ open["padding"] <= MaxLeaked
      BY DEF TypeOK
    <3>2. open' = [open EXCEPT !["socket"] = 1] \/ open' = open
      BY <1>5 DEF Accept
    <3>3. QED
      BY <3>1, <3>2
  <2>2. QED
    BY <1>5, <2>1 DEF Accept, TypeOK, Gone, Total, clientVars, wireVars, parserVars
<1>17. CASE Exhausted \/ Resume
  BY <1>17 DEF Exhausted, Resume, TypeOK, Gone, Total, clientVars, wireVars, parserVars
<1>6. CASE RecvFails
  <2>1. Closes
    BY <1>6 DEF RecvFails, HangUp
  <2>2. QED
    BY <1>6, <2>1, ClosesIs DEF RecvFails, HangUp, TypeOK, Gone, Total, clientVars, parserVars
<1>7. CASE RecvSetup
  <2>1. CASE RecvFails
    BY <1>6, <2>1
  <2>2. CASE ~ RecvFails
    <3>1. sent' = sent /\ line' = line /\ read = 0 /\ sent > read /\ read' = 1
      BY <1>7, <2>2 DEF RecvSetup, Arrived, Phases, clientVars
    <3>2. (read \in 0 .. sent /\ sent \in 0 .. Total)'
      BY <3>1 DEF TypeOK, Total
    <3>3. open' \in [Named \cup {"padding"} -> Nat] /\ open'["padding"] <= MaxLeaked
      BY <1>7, <2>2, ReceivedIs
    <3>4. QED
      BY <1>7, <2>2, <3>2, <3>3 DEF RecvSetup, TypeOK, Gone, clientVars, parserVars
  <2>3. QED
    BY <2>1, <2>2
<1>8. CASE RecvHeader
  <2>1. CASE RecvFails
    BY <1>6, <2>1
  <2>2. CASE ~ RecvFails
    <3>1. sent' = sent /\ line' = line /\ read = 1 /\ sent > read /\ read' = 2
      BY <1>8, <2>2 DEF RecvHeader, Arrived, Phases, clientVars
    <3>2. (read \in 0 .. sent /\ sent \in 0 .. Total)'
      BY <3>1 DEF TypeOK, Total
    <3>3. QED
      BY <1>8, <2>2, <3>2 DEF RecvHeader, TypeOK, Gone, clientVars, parserVars
  <2>3. QED
    BY <2>1, <2>2
<1>9. CASE NoMemory
  BY <1>6, <1>9 DEF NoMemory
<1>10. CASE RecvWords
  <2>1. CASE RecvFails
    BY <1>6, <2>1
  <2>2. CASE daemon' = "crashed"
    <3>1. CASE link' = "closed" /\ open' = Closed(0) /\ UNCHANGED <<clientVars, wireVars, parserVars, cwd>>
      BY <2>2, <3>1, NothingIsOpen DEF TypeOK, Gone, Total, clientVars, wireVars, parserVars
    <3>2. QED
      BY <1>6, <1>10, <2>2, <3>1 DEF RecvWords
  <2>3. CASE daemon' = "run"
    <3>9. ~ RecvFails
      BY <2>3, ClosesIs DEF RecvFails, HangUp
    <3>1. PICK words \in [1 .. Len(line) -> Words] : argv' = words
      BY <1>10, <2>3, <3>9 DEF RecvWords
    <3>2. argv' \in Seq(Words)
      <4>1. Len(line) \in Nat
        BY DEF TypeOK
      <4>2. QED
        BY <3>1, <4>1, WordsAreASequence
    <3>3. i' = 1
      BY <1>10, <2>3, <3>9 DEF RecvWords, Phases, Fresh
    <3>4. /\ read' = sent /\ sent' = sent /\ line' = line /\ cwd' \in {"/", "client's"}
          /\ UNCHANGED <<client, link, answered, calls, open>>
      BY <1>10, <2>3, <3>9 DEF RecvWords, clientVars
    <3>5. (read \in 0 .. sent /\ sent \in 0 .. Total /\ i \in 1 .. Len(argv) + 1)'
      BY <3>2, <3>3, <3>4 DEF TypeOK, Total
    <3>6. QED
      BY <2>3, <3>2, <3>4, <3>5 DEF TypeOK, Gone
  <2>4. QED
    BY <1>10, <2>1, <2>2, <2>3 DEF RecvWords
<1>11. CASE Skip
  <2>1. i' \in 1 .. Len(argv) + 1
    BY <1>11, ParserSkips
  <2>2. QED
    BY <1>11, <2>1 DEF Skip, MayBlock, TypeOK, Gone, Total, clientVars, wireVars
<1>12. CASE Run
  <2>1. calls' \in Seq([cmd : Nat \ {0}, argc : Nat]) /\ i' \in 1 .. Len(argv) + 1
    BY <1>12, ParserRuns
  <2>2. QED
    BY <1>12, <2>1 DEF Run, MayBlock, TypeOK, Gone, Total, clientVars, wireVars
<1>13. CASE Crash
  BY <1>13, NothingIsOpen DEF Crash, TypeOK, Gone, Total, clientVars, wireVars, parserVars
<1>14. CASE Answer
  BY <1>14, ClosesIs DEF Answer, HangUp, TypeOK, Gone, Total, clientVars, parserVars
<1>15. CASE UNCHANGED vars
  BY <1>15 DEF vars, TypeOK, Gone, Total, clientVars, wireVars, parserVars
<1>16. QED
  BY <1>1, <1>2, <1>3, <1>4, <1>5, <1>7, <1>8, <1>9, <1>10, <1>11, <1>12, <1>13, <1>14, <1>15, <1>17
     DEF Next

-----------------------------------------------------------------------------
LEMMA PhasesStay ==
    ASSUME TypeOK, Phases, OnlyPaddingIsKept, [Next]_vars
    PROVE  Phases' /\ OnlyPaddingIsKept'
<1> USE ConnectionAssumption DEF TypeOK, Phases, OnlyPaddingIsKept, Fresh, Fits, Total, Gone
<1>1. CASE Connect
  <2>1. Len(line') \in Nat
    BY <1>1, TypesStay
  <2>2. QED
    BY <1>1, <2>1 DEF Connect
<1>2. CASE SendSetup
  BY <1>2 DEF SendSetup, Fails, parserVars
<1>3. CASE SendArgv
  BY <1>3 DEF SendArgv, Fails, parserVars
<1>4. CASE RecvStatus \/ Kill
  <2>1. CASE RecvStatus
    BY <2>1 DEF RecvStatus, wireVars, parserVars
  <2>2. CASE Kill
    BY <2>2 DEF Kill, wireVars, parserVars
  <2>3. QED
    BY <1>4, <2>1, <2>2
<1>5. CASE Accept
  BY <1>5 DEF Accept, clientVars, wireVars, parserVars
<1>16. CASE Exhausted
  BY <1>16 DEF Exhausted, clientVars, wireVars, parserVars
<1>17. CASE Resume
  BY <1>17 DEF Resume, clientVars, wireVars, parserVars
<1>6. CASE RecvFails /\ daemon \in {"setup", "header", "words"}
  BY <1>6, ClosesIs DEF RecvFails, HangUp, clientVars, parserVars
<1>7. CASE RecvSetup
  BY <1>6, <1>7 DEF RecvSetup, Arrived, clientVars, parserVars
<1>8. CASE RecvHeader
  BY <1>6, <1>8 DEF RecvHeader, Arrived, clientVars, parserVars
<1>9. CASE NoMemory
  BY <1>6, <1>9 DEF NoMemory
<1>10. CASE RecvWords
  BY <1>6, <1>10 DEF RecvWords, clientVars, wireVars, parserVars
<1>11. CASE Skip \/ Run
  BY <1>11 DEF Skip, Run, MayBlock, clientVars, wireVars
<1>12. CASE Crash
  BY <1>12 DEF Crash, clientVars, wireVars, parserVars
<1>13. CASE Answer
  BY <1>13, ClosesIs DEF Answer, HangUp, clientVars, parserVars
<1>14. CASE UNCHANGED vars
  BY <1>14 DEF vars, clientVars, wireVars, parserVars
<1>15. QED
  BY <1>1, <1>2, <1>3, <1>4, <1>5, <1>7, <1>8, <1>9, <1>10, <1>11, <1>12, <1>13, <1>14, <1>16, <1>17 DEF Next

-----------------------------------------------------------------------------
LEMMA DeliveredStays ==
    ASSUME TypeOK, Phases, Sliced, Covered, Delivered, [Next]_vars
    PROVE  Delivered'
<1> USE DEF Fits
<1>1. CASE Connect
  BY <1>1 DEF Connect, Delivered
<1>2. CASE SendSetup \/ SendArgv \/ RecvStatus \/ Kill
  BY <1>2 DEF SendSetup, SendArgv, RecvStatus, Kill, Fails, Delivered, wireVars, parserVars
<1>3. CASE Accept
  BY <1>3 DEF Accept, Delivered, clientVars, wireVars, parserVars
<1>12. CASE Exhausted \/ Resume
  BY <1>12 DEF Exhausted, Resume, Delivered, clientVars, wireVars, parserVars
<1>4. CASE RecvFails
  BY <1>4, ClosesIs DEF RecvFails, HangUp, Delivered, clientVars, parserVars
<1>5. CASE RecvSetup \/ RecvHeader \/ NoMemory
  BY <1>4, <1>5 DEF RecvSetup, RecvHeader, NoMemory, Delivered, clientVars, parserVars
<1>6. CASE RecvWords
  <2>1. CASE daemon' = "run"
    <3>9. ~ RecvFails
      BY <2>1, ClosesIs DEF RecvFails, HangUp
    <3>1. PICK words \in [1 .. Len(line) -> Words] :
             (\A p \in 1 .. sent - 2 : words[p] = line[p]) /\ argv' = words
      BY <1>6, <2>1, <3>9 DEF RecvWords
    <3>2. /\ ~ answered' /\ UNCHANGED clientVars /\ sent > 2
          /\ line \in [1 .. Len(line) -> Words]
      BY <1>6, <2>1, <3>9, SeqDef DEF RecvWords, Arrived, Phases, Fresh, TypeOK
    <3>3. Fits => sent - 2 = Len(line)
      BY <3>2 DEF Phases, Total, TypeOK
    <3>4. Fits => words = line
      BY <3>1, <3>2, <3>3
    <3>5. (Fits => argv = line)'
      BY <3>1, <3>2, <3>4 DEF clientVars
    <3>6. client' = client /\ client # "success"
      BY <1>6, <3>2 DEF Delivered, clientVars, RecvWords, Phases, Fresh
    <3>7. QED
      BY <3>2, <3>5, <3>6 DEF Delivered
  <2>2. CASE daemon' # "run"
    BY <1>4, <1>6, <2>2 DEF RecvWords, Delivered, Phases, Fresh, clientVars, wireVars, parserVars
  <2>3. QED
    BY <2>1, <2>2
<1>7. CASE Skip \/ Run
  BY <1>7 DEF Skip, Run, MayBlock, Delivered, clientVars, wireVars, TypeOK
<1>8. CASE Crash
  BY <1>8 DEF Crash, Delivered, clientVars, wireVars, parserVars
<1>9. CASE Answer
  BY <1>9, ClosesIs DEF Answer, HangUp, Delivered, clientVars, parserVars
<1>10. CASE UNCHANGED vars
  BY <1>10 DEF vars, Delivered, clientVars, wireVars, parserVars
<1>11. QED
  BY <1>1, <1>2, <1>3, <1>5, <1>6, <1>7, <1>8, <1>9, <1>10, <1>12 DEF Next

-----------------------------------------------------------------------------
LEMMA SoundAlways == Spec => []IInv
<1>1. IInv /\ [Next]_vars => IInv'
  BY ParserIsSound, TypesStay, PhasesStay, DeliveredStays DEF IInv
<1>2. QED
  BY InitIsSound, <1>1, PTL DEF Spec

LEMMA SoundIsRight == IInv => TypeOK /\ HandlersGetTheLine /\ SuccessMeansRun /\ OnlyPaddingIsKept
<1> SUFFICES ASSUME IInv
             PROVE  HandlersGetTheLine /\ SuccessMeansRun
  BY DEF IInv
<1>1. HandlersGetTheLine
  <2> SUFFICES ASSUME Fits
               PROVE  HandlersGetTheLine
    BY DEF HandlersGetTheLine
  <2>1. CASE calls = <<>>
    BY <2>1 DEF HandlersGetTheLine
  <2>2. CASE calls # <<>>
    <3>1. argv # <<>>
      <4>1. calls \in Seq([cmd : Nat \ {0}, argc : Nat])
        BY DEF IInv, TypeOK
      <4>2. 1 \in DOMAIN calls /\ calls[1].cmd \in Nat \ {0} /\ calls[1].argc \in Nat
        <5>1. 1 \in 1 .. Len(calls) /\ 1 \in DOMAIN calls
          BY <2>2, <4>1
        <5>2. calls[1] \in [cmd : Nat \ {0}, argc : Nat]
          BY <4>1, <5>1, ElementOfSeq
        <5>3. QED
          BY <5>1, <5>2
      <4>3. calls[1].cmd + calls[1].argc + 1 <= Len(argv) + 1
        BY <4>2 DEF IInv, Sliced, After
      <4>4. QED
        BY <4>2, <4>3
    <3>2. argv = line
      BY <3>1 DEF IInv, Delivered
    <3>3. QED
      BY <2>2, <3>2 DEF IInv, Sliced, HandlersGetTheLine
  <2>3. QED
    BY <2>1, <2>2
<1>2. SuccessMeansRun
  <2> SUFFICES ASSUME client = "success", Fits, NEW p \in DOMAIN line, line[p] \in Options
               PROVE  \E k \in DOMAIN calls : calls[k].cmd = p
    BY DEF SuccessMeansRun
  <2>1. argv = line /\ i > Len(argv)
    BY DEF IInv, Delivered
  <2>2. p \in 1 .. i - 1
    BY <2>1 DEF IInv, TypeOK
  <2>3. QED
    BY <2>1, <2>2 DEF IInv, Covered
<1>3. QED
  BY <1>1, <1>2

(* Neither the counters of the stream nor the index of the parser leave     *)
(* their bounds, for a command line of any length.                          *)
THEOREM TypeCorrect == Spec => []TypeOK
BY SoundAlways, SoundIsRight, PTL

(* Every handler gets its own slice of what was typed, in order and with   *)
(* nothing left out, for all options and all command lines that come in    *)
(* one segment.                                                            *)
THEOREM HandlersAreGivenTheLine == Spec => []HandlersGetTheLine
BY SoundAlways, SoundIsRight, PTL

(* A climp that returns successfully has had every option of its command   *)
(* line run, for the same.                                                 *)
THEOREM SuccessIsEarned == Spec => []SuccessMeansRun
BY SoundAlways, SoundIsRight, PTL

(* Whichever step fails, no descriptor stays open after a connection but   *)
(* those that leak through the padding, and the daemon is back in "/": for *)
(* every command line, however many descriptors have leaked before, and    *)
(* also when fewer than three arrive.                                      *)
THEOREM OnlyPaddingLeaks == Spec => []OnlyPaddingIsKept
BY SoundAlways, SoundIsRight, PTL
=============================================================================
