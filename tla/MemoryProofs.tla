---------------------------- MODULE MemoryProofs ----------------------------
(***************************************************************************)
(* Caches, bus and memory, for every number of lines, words, sets and      *)
(* ways: the data cache behaves as one memory, the instruction cache       *)
(* answers the fetches it takes, a FENCE.I leaves no dirty line, and a     *)
(* fetch after it sees the stores before it.                               *)
(***************************************************************************)
EXTENDS MemorySystemProperties, WellFoundedInduction, TLAPS

(* The least member of a nonempty set of numbers: the way that hits, the   *)
(* invalid way that is filled first.                                       *)
LEMMA MinFacts ==
  ASSUME NEW S \in SUBSET Nat, S # {}
  PROVE  Min(S) \in S /\ \A x \in S : Min(S) <= x
<1> DEFINE R == OpToRel(<, Nat)
<1>1. IsWellFoundedOn(R, Nat)
  BY NatLessThanWellFounded
<1>2. \E m \in S : \A y \in S : ~(<<y, m>> \in R)
  <2> HIDE DEF R
  <2> QED
    BY <1>1, WFMin
<1>3. PICK m \in S : \A y \in S : ~(<<y, m>> \in R)
  BY <1>2
<1>4. \A y \in S : m <= y
  <2> TAKE y \in S
  <2>1. ~(y < m)
    BY <1>3 DEF OpToRel
  <2> QED
    BY <2>1
<1> QED
  BY <1>3, <1>4 DEF Min

(* The sizes.                                                              *)
LEMMA SizeFacts ==
  /\ Lines = 0 .. LINES - 1 /\ Beats = 0 .. WORDS_PER_LINE - 1
  /\ Sets = 0 .. NUM_SETS - 1 /\ Ways = 0 .. NUM_WAYS - 1
  /\ ISets = 0 .. I_SETS - 1 /\ IWays = 0 .. I_WAYS - 1
  /\ LINES \in Nat \ {0} /\ WORDS_PER_LINE \in Nat \ {0}
  /\ NUM_SETS \in Nat \ {0} /\ NUM_WAYS \in Nat \ {0}
  /\ I_SETS \in Nat \ {0} /\ I_WAYS \in Nat \ {0}
  /\ \A n \in Lines : SetOf(n) \in Sets /\ ISetOf(n) \in ISets
<1>1. /\ LINES \in Nat \ {0} /\ WORDS_PER_LINE \in Nat \ {0}
      /\ NUM_SETS \in Nat \ {0} /\ NUM_WAYS \in Nat \ {0}
      /\ I_SETS \in Nat \ {0} /\ I_WAYS \in Nat \ {0}
  BY FabricAssumption, CacheAssumption, ICacheAssumption
<1> QED
  BY <1>1 DEF Lines, Beats, Sets, Ways, ISets, IWays, SetOf, ISetOf

-----------------------------------------------------------------------------
(* Types.                                                                  *)
LEMMA Members ==
  /\ 0 \in Lines /\ 0 \in Beats /\ 0 \in Sets /\ 0 \in Ways
  /\ 0 \in ISets /\ 0 \in IWays
  /\ <<0, 0>> \in Words
  /\ NoData \in LineData /\ NoEngine \in Engine /\ NoLine \in Line /\ NoILine \in ILine
  /\ NoRequest \in Request
  /\ NoBridge \in [st : BridgeStates, word : Words, val : WordValues]
<1>1. /\ 0 \in Lines /\ 0 \in Beats /\ 0 \in Sets /\ 0 \in Ways
      /\ 0 \in ISets /\ 0 \in IWays
  BY SizeFacts
<1>2. <<0, 0>> \in Words
  BY <1>1 DEF Words
<1>3. NoData \in LineData
  BY DEF NoData, LineData, WordValues
<1>4. /\ NoEngine \in Engine /\ NoLine \in Line /\ NoILine \in ILine
      /\ NoRequest \in Request
  BY <1>1, <1>2, <1>3
     DEF NoEngine, Engine, NoLine, Line, NoILine, ILine, NoRequest, Request, WordValues
<1>5. NoBridge \in [st : BridgeStates, word : Words, val : WordValues]
  BY <1>2 DEF NoBridge, BridgeStates, WordValues
<1> QED
  BY <1>1, <1>2, <1>3, <1>4, <1>5

(* What starts an engine.                                                  *)
LEMMA StartTypes ==
  ASSUME NEW line \in Lines, NEW data \in LineData
  PROVE  StartRead(line) \in Engine /\ StartWrite(line, data) \in Engine
  BY Members DEF StartRead, StartWrite, Engine, NoEngine

(* An engine stays one.                                                    *)
LEMMA EngineType ==
  ASSUME NEW e \in Engine, NEW start \in Engine, NEW ack \in BOOLEAN,
         NEW rdata \in WordValues
  PROVE  EngineNext(e, start, ack, rdata) \in Engine
<1>1. CASE e.st = "IDLE"
  BY <1>1 DEF EngineNext
<1>2. CASE e.st = "REQ" /\ ack
  <2> DEFINE got == IF e.write THEN e.data ELSE [e.data EXCEPT ![e.beat] = rdata]
  <2>1. got \in LineData
    BY DEF Engine, LineData
  <2>2. e.beat # WORDS_PER_LINE - 1 => e.beat + 1 \in Beats
    <3>1. e.beat \in Beats
      BY DEF Engine
    <3> QED
      BY <3>1, FabricAssumption DEF Beats
  <2>3. EngineNext(e, start, ack, rdata) =
          IF e.beat = WORDS_PER_LINE - 1 THEN [e EXCEPT !.st = "DONE", !.data = got]
          ELSE [e EXCEPT !.beat = @ + 1, !.data = got]
    BY <1>2 DEF EngineNext
  <2> HIDE DEF got
  <2> QED
    BY <2>1, <2>2, <2>3 DEF Engine
<1>3. CASE e.st = "REQ" /\ ~ack
  BY <1>3 DEF EngineNext
<1>4. CASE e.st = "DONE"
  BY <1>4 DEF EngineNext, Engine
<1> QED
  BY <1>1, <1>2, <1>3, <1>4 DEF Engine

(* The fields of the registers, one by one.                                *)
LEMMA FieldTypes ==
  ASSUME TypeOK
  PROVE  /\ dEngine \in Engine /\ iEngine \in Engine
         /\ \A m \in Masters : /\ bridge[m].st \in BridgeStates
                               /\ bridge[m].word \in Words /\ bridge[m].val \in WordValues
                               /\ Ack(m) \in BOOLEAN
         /\ dReq.op \in {"NONE", "READ", "WRITE"} /\ dReq.word \in Words
         /\ dReq.val \in WordValues
         /\ dReq.word[1] \in Lines /\ dReq.word[2] \in Beats
         /\ LookupLine \in Lines /\ LookupSet \in Sets
         /\ dMshr.busy \in BOOLEAN /\ dMshr.way \in Ways
         /\ dMshr.victim \in Line
         /\ dWalk.active \in BOOLEAN /\ dWalk.set \in Sets /\ dWalk.way \in Ways
         /\ WalkLine \in Line
         /\ \A s \in Sets, w \in Ways : LineAt(s, w) \in Line
<1>1. dEngine \in Engine /\ iEngine \in Engine
  BY DEF TypeOK, DTypeOK, ITypeOK
<1>2. ASSUME NEW m \in Masters
      PROVE  /\ bridge[m].st \in BridgeStates
             /\ bridge[m].word \in Words /\ bridge[m].val \in WordValues
             /\ Ack(m) \in BOOLEAN
  BY DEF TypeOK, FabricTypeOK, Ack
<1>3. /\ dReq.op \in {"NONE", "READ", "WRITE"} /\ dReq.word \in Words
      /\ dReq.val \in WordValues
  BY DEF TypeOK, DTypeOK, Request
<1>4. dReq.word[1] \in Lines /\ dReq.word[2] \in Beats
  BY <1>3 DEF Words
<1>5. LookupLine \in Lines /\ LookupSet \in Sets
  BY <1>4, SizeFacts DEF LookupLine, LookupSet
<1>6. /\ dMshr.busy \in BOOLEAN /\ dMshr.way \in Ways
      /\ dMshr.victim \in Line
      /\ dWalk.active \in BOOLEAN /\ dWalk.set \in Sets /\ dWalk.way \in Ways
  BY DEF TypeOK, DTypeOK
<1>7. \A s \in Sets, w \in Ways : LineAt(s, w) \in Line
  BY DEF TypeOK, DTypeOK, LineAt
<1>8. WalkLine \in Line
  BY <1>6, <1>7 DEF WalkLine
<1> QED
  BY <1>1, <1>2, <1>3, <1>4, <1>5, <1>6, <1>7, <1>8

(* Bridges, crossbar and SRAM keep their types.                            *)
LEMMA FabricTyping ==
  ASSUME TypeOK, FabricClock(dEngine, iEngine)
  PROVE  FabricTypeOK'
<1>1. ASSUME NEW m \in Masters, NEW e \in Engine
      PROVE  BridgeNext(m, e) \in [st : BridgeStates, word : Words, val : WordValues]
  <2>1. EngineWord(e) \in Words
    BY DEF EngineWord, Engine, Words
  <2>2. e.data[e.beat] \in WordValues /\ 0 \in WordValues
    BY DEF Engine, LineData, WordValues
  <2>3. bridge[m] \in [st : BridgeStates, word : Words, val : WordValues]
    BY DEF TypeOK, FabricTypeOK
  <2>4. sramPort.val \in WordValues
    BY DEF TypeOK, FabricTypeOK
  <2> QED
    BY <2>1, <2>2, <2>3, <2>4, Members DEF BridgeNext, BridgeStates
<1>2. bridge' \in [Masters -> [st : BridgeStates, word : Words, val : WordValues]]
  BY <1>1, FieldTypes DEF FabricClock
<1>3. xbar' \in [st : {"IDLE", "ADDR", "WRITE", "READ"}, owner : Masters,
                 write : BOOLEAN, rr : Masters]
  <2>1. xbar \in [st : {"IDLE", "ADDR", "WRITE", "READ"}, owner : Masters,
                  write : BOOLEAN, rr : Masters]
    BY DEF TypeOK, FabricTypeOK
  <2>2. Requesting # {} => (CHOOSE m \in Requesting : TRUE) \in Masters
    BY DEF Requesting
  <2>3. Other(xbar.owner) \in Masters
    BY DEF Other, Masters
  <2> QED
    BY <2>1, <2>2, <2>3 DEF FabricClock, XbarNext
<1>4. sram' \in [Words -> WordValues]
  BY FieldTypes DEF FabricClock, SramClock, TypeOK, FabricTypeOK
<1>5. sramPort' \in [wr : BOOLEAN, b : BOOLEAN, rd : BOOLEAN, val : WordValues]
  <2>1. sramPort \in [wr : BOOLEAN, b : BOOLEAN, rd : BOOLEAN, val : WordValues]
    BY DEF TypeOK, FabricTypeOK
  <2>2. sram[bridge[xbar.owner].word] \in WordValues
    BY FieldTypes DEF TypeOK, FabricTypeOK
  <2>3. NoPort \in [wr : BOOLEAN, b : BOOLEAN, rd : BOOLEAN, val : WordValues]
    BY DEF NoPort, WordValues
  <2> QED
    BY <2>1, <2>2, <2>3 DEF FabricClock, SramClock
<1> QED
  BY <1>2, <1>3, <1>4, <1>5 DEF FabricTypeOK

(* Ways that a lookup finds, and lines of data.                            *)
LEMMA WayTypes ==
  /\ HitWays # {} => Min(HitWays) \in HitWays
  /\ InvalidWays # {} => Min(InvalidWays) \in InvalidWays
  /\ HitWays \subseteq Ways /\ InvalidWays \subseteq Ways
  /\ \A plru \in Ways : AllocWay(plru) \in Ways
<1>1. Ways \subseteq Nat
  BY SizeFacts
<1>2. HitWays \in SUBSET Nat /\ HitWays \subseteq Ways
  BY <1>1 DEF HitWays
<1>3. InvalidWays \in SUBSET Nat /\ InvalidWays \subseteq Ways
  BY <1>1 DEF InvalidWays
<1>4. HitWays # {} => Min(HitWays) \in HitWays
  BY <1>2, MinFacts
<1>5. InvalidWays # {} => Min(InvalidWays) \in InvalidWays
  BY <1>3, MinFacts
<1>6. ASSUME NEW plru \in Ways
      PROVE  AllocWay(plru) \in Ways
  BY <1>3, <1>5 DEF AllocWay
<1> QED
  BY <1>2, <1>3, <1>4, <1>5, <1>6

(* A line that is filled and an answer have their types.                   *)
LEMMA DataTypes ==
  ASSUME TypeOK, NEW data \in LineData
  PROVE  /\ Merged(data) \in LineData
         /\ Answer(data) \in [st : {"NONE", "READ", "WRITE"}, val : WordValues]
<1>1. Merged(data) \in LineData
  BY FieldTypes DEF Merged, LineData
<1>2. data[dReq.word[2]] \in WordValues /\ 0 \in WordValues
  BY FieldTypes DEF LineData, WordValues
<1>3. Answer(data) \in [st : {"NONE", "READ", "WRITE"}, val : WordValues]
  BY <1>2, FieldTypes DEF Answer
<1> QED
  BY <1>1, <1>3

(* What the program reads is a value for every word.                       *)
ContentsTyped == FabricTypeOK /\ DTypeOK => Contents \in [Words -> WordValues]

(* By the types of the lines.                                              *)
LEMMA ContentsType == ContentsTyped
<1> SUFFICES ASSUME FabricTypeOK, DTypeOK PROVE Contents \in [Words -> WordValues]
  BY DEF ContentsTyped
<1>1. ASSUME NEW w \in Words
      PROVE  Contents[w] \in WordValues
  <2>1. /\ w[1] \in Lines /\ w[2] \in Beats /\ SetOf(w[1]) \in Sets
    BY SizeFacts DEF Words
  <2>2. Holding(w) # {} => Min(Holding(w)) \in Ways
    <3>1. Holding(w) \in SUBSET Nat /\ Holding(w) \subseteq Ways
      BY SizeFacts DEF Holding
    <3> QED
      BY <3>1, MinFacts
  <2>3. Holding(w) # {} => LineAt(SetOf(w[1]), Min(Holding(w))) \in Line
    BY <2>1, <2>2 DEF DTypeOK, LineAt
  <2>4. Holding(w) # {} => LineAt(SetOf(w[1]), Min(Holding(w))).data[w[2]] \in WordValues
    BY <2>1, <2>3 DEF Line, LineData
  <2>5. sram[w] \in WordValues
    BY DEF FabricTypeOK
  <2> QED
    BY <2>4, <2>5 DEF Contents
<1>2. Contents = [w \in Words |-> Contents[w]]
  BY DEF Contents
<1> QED
  BY <1>1, <1>2

(* What the core offers.                                                   *)
LEMMA OfferTypes ==
  ASSUME TypeOK, NEW access \in Offers
  PROVE  /\ access \in Request
         /\ access # NoRequest => /\ DReady(FlushReq) /\ ~fence
                                  /\ access.op \in {"READ", "WRITE"}
                                  /\ access.op = "READ" => access.val = 0
<1>1. LoadWords \subseteq Words /\ StoreWords \subseteq Words
  BY ProgramAssumption
<1>2. \A v : 1 - v \in WordValues \/ v \notin WordValues
  BY DEF WordValues
<1>3. \A w \in Words : Contents[w] \in WordValues
  BY ContentsType DEF ContentsTyped, TypeOK
<1>4. CASE access = NoRequest
  BY <1>4, Members
<1>5. CASE access # NoRequest
  <2>1. /\ DReady(FlushReq) /\ ~fence
        /\ \/ \E w \in LoadWords : access = [op |-> "READ", word |-> w, val |-> 0]
           \/ \E w \in StoreWords :
                access = [op |-> "WRITE", word |-> w, val |-> 1 - Contents[w]]
    BY <1>5 DEF Offers
  <2>2. CASE \E w \in LoadWords : access = [op |-> "READ", word |-> w, val |-> 0]
    BY <1>1, <2>1, <2>2 DEF Request, WordValues
  <2>3. CASE \E w \in StoreWords :
               access = [op |-> "WRITE", word |-> w, val |-> 1 - Contents[w]]
    <3>1. PICK w \in StoreWords :
            access = [op |-> "WRITE", word |-> w, val |-> 1 - Contents[w]]
      BY <2>3
    <3>2. w \in Words /\ 1 - Contents[w] \in WordValues
      BY <1>1, <1>2, <1>3
    <3> QED
      BY <2>1, <3>1, <3>2 DEF Request
  <2> QED
    BY <2>1, <2>2, <2>3
<1> QED
  BY <1>4, <1>5

(* The data cache keeps its types.                                         *)
LEMMA DataCacheTyping ==
  ASSUME TypeOK, NEW access \in Request, NEW plru \in Ways, NEW flushReq \in BOOLEAN,
         DClock(access, plru, flushReq)
  PROVE  DTypeOK'
<1>1. dEngine' \in Engine
  <2>1. /\ dMshr.victim.line \in Lines /\ dMshr.victim.data \in LineData
        /\ WalkLine.line \in Lines /\ WalkLine.data \in LineData
    BY FieldTypes DEF Line
  <2>2. DStart \in Engine
    BY <2>1, FieldTypes, StartTypes, Members DEF DStart
  <2> QED
    BY <2>2, FieldTypes, EngineType DEF DClock, Masters
<1>2. dLines' \in [Sets \X Ways -> Line]
  <2>1. dLines \in [Sets \X Ways -> Line]
    BY DEF TypeOK, DTypeOK
  <2>2. ASSUME NEW w \in Ways
        PROVE  Merged(LineAt(LookupSet, w).data) \in LineData
    BY FieldTypes, DataTypes DEF Line
  <2>3. CASE DResolveHit(access)
    <3>1. Min(HitWays) \in Ways
      BY <2>3, WayTypes DEF DResolveHit, DHit
    <3>2. PICK w \in Ways :
            dLines' = IF dReq.op = "WRITE"
                       THEN [dLines EXCEPT ![<<LookupSet, w>>].data =
                                              Merged(LineAt(LookupSet, w).data),
                                           ![<<LookupSet, w>>].dirty = TRUE]
                     ELSE dLines
      BY <2>3, <3>1 DEF DResolveHit
    <3> QED
      BY <2>1, <2>2, <3>2, FieldTypes DEF Line
  <2>4. CASE DMissFinish
    <3>1. Merged(dEngine.data) \in LineData
      BY FieldTypes, DataTypes DEF Engine
    <3> QED
      BY <2>1, <2>4, <3>1, FieldTypes DEF DMissFinish, Line
  <2>5. CASE DFlushWriteBack
    <3>1. CASE EngineDone
      <4>1. dLines' = [dLines EXCEPT ![<<dWalk.set, dWalk.way>>].dirty = FALSE]
        BY <2>5, <3>1 DEF DFlushWriteBack
      <4>2. <<dWalk.set, dWalk.way>> \in Sets \X Ways
        BY FieldTypes
      <4> QED
        BY <2>1, <4>1, <4>2 DEF Line
    <3>2. CASE ~EngineDone
      BY <2>1, <2>5, <3>2 DEF DFlushWriteBack
    <3> QED
      BY <3>1, <3>2
  <2>6. CASE UNCHANGED dLines
    BY <2>1, <2>6
  <2> QED
    BY <2>3, <2>4, <2>5, <2>6 DEF DClock, DAccept, DResolveMiss, DStartWalk, DRest,
       DMissWriteBack, DMissFill, DFlushScan
<1>3. dMshr' \in [busy : BOOLEAN, way : Ways, victim : Line]
  <2>1. NoMiss \in [busy : BOOLEAN, way : Ways, victim : Line]
    BY Members DEF NoMiss
  <2>2. AllocWay(plru) \in Ways /\ Victim(plru) \in Line
    BY WayTypes, FieldTypes DEF Victim
  <2>3. dMshr \in [busy : BOOLEAN, way : Ways, victim : Line]
    BY DEF TypeOK, DTypeOK
  <2>4. CASE DResolveMiss(access, plru)
    <3>1. dMshr' = [busy |-> TRUE, way |-> AllocWay(plru), victim |-> Victim(plru)]
      BY <2>4 DEF DResolveMiss
    <3> QED
      BY <2>2, <3>1
  <2>5. CASE DMissFinish
    BY <2>1, <2>5 DEF DMissFinish
  <2> QED
    BY <2>3, <2>4, <2>5 DEF DClock, DAccept, DResolveHit, DStartWalk, DRest,
       DMissWriteBack, DMissFill, DFlushScan, DFlushWriteBack
<1>4. dHold' \in [st : {"NONE", "READ", "WRITE"}, val : WordValues]
  <2>1. NoAnswer \in [st : {"NONE", "READ", "WRITE"}, val : WordValues]
    BY DEF NoAnswer, WordValues
  <2>2. dHold \in [st : {"NONE", "READ", "WRITE"}, val : WordValues]
    BY DEF TypeOK, DTypeOK
  <2>3. CASE DResolveHit(access)
    <3>1. Min(HitWays) \in Ways
      BY <2>3, WayTypes DEF DResolveHit, DHit
    <3>2. Merged(LineAt(LookupSet, Min(HitWays)).data) \in LineData
      BY <3>1, FieldTypes, DataTypes DEF Line
    <3>3. dHold' = Answer(Merged(LineAt(LookupSet, Min(HitWays)).data))
      BY <2>3 DEF DResolveHit
    <3> QED
      BY <3>2, <3>3, DataTypes
  <2>4. CASE DMissFinish
    <3>1. Merged(dEngine.data) \in LineData
      BY FieldTypes, DataTypes DEF Engine
    <3> QED
      BY <2>4, <3>1, DataTypes DEF DMissFinish
  <2> QED
    BY <2>1, <2>2, <2>3, <2>4 DEF DClock, DAccept, DResolveMiss, DStartWalk, DRest,
       DMissWriteBack, DMissFill, DFlushScan, DFlushWriteBack
<1>5. dWalk' \in [active : BOOLEAN, set : Sets, way : Ways]
  <2>1. dWalk \in [active : BOOLEAN, set : Sets, way : Ways]
    BY DEF TypeOK, DTypeOK
  <2>2. NoWalk \in [active : BOOLEAN, set : Sets, way : Ways]
    BY Members DEF NoWalk
  <2>3. ~WalkLast /\ dWalk.way = NUM_WAYS - 1 => dWalk.set + 1 \in Sets
    BY <2>1, CacheAssumption DEF WalkLast, Sets
  <2>4. dWalk.way # NUM_WAYS - 1 => dWalk.way + 1 \in Ways
    BY <2>1, CacheAssumption DEF Ways
  <2>5. WalkNext \in [active : BOOLEAN, set : Sets, way : Ways]
    BY <2>1, <2>2, <2>3, <2>4, Members DEF WalkNext
  <2> QED
    BY <2>1, <2>2, <2>5 DEF DClock, DAccept, DResolveHit, DResolveMiss, DStartWalk, DRest,
       DMissWriteBack, DMissFill, DMissFinish, DFlushScan, DFlushWriteBack, DWalkOn, NoWalk
<1>6. dState' \in DStates /\ dPending' \in BOOLEAN /\ dDone' \in BOOLEAN
  BY DEF TypeOK, DTypeOK, DStates, DClock, DAccept, DResolveHit, DResolveMiss, DStartWalk,
       DRest, DMissWriteBack, DMissFill, DMissFinish, DFlushScan, DFlushWriteBack, DWalkOn,
       WalkLast
<1>7. dReq' \in Request
  BY Members DEF TypeOK, DTypeOK, DClock, DAccept, DResolveHit, DResolveMiss, DStartWalk,
       DRest, DMissWriteBack, DMissFill, DMissFinish, DFlushScan, DFlushWriteBack
<1> QED
  BY <1>1, <1>2, <1>3, <1>4, <1>5, <1>6, <1>7 DEF DTypeOK

(* A fetch that is looked up in two parts does run into the next line.     *)
CrossInv == iReq.part # "ALL" => MayCross(iReq.word)

(* The fetch that is looked up, and the ways it finds.                     *)
LEMMA FetchTypes ==
  ASSUME TypeOK, CrossInv
  PROVE  /\ iReq.word \in Words /\ iReq.part \in Parts /\ iReq.valid \in BOOLEAN
         /\ FetchWord \in Words /\ FetchLine \in Lines /\ FetchWord[2] \in Beats
         /\ FetchSet \in ISets
         /\ \A s \in ISets, w \in IWays : ILineAt(s, w) \in ILine
         /\ IHitWays # {} => Min(IHitWays) \in IHitWays
         /\ IHitWays \subseteq IWays
         /\ \A plru \in IWays : IAllocWay(plru) \in IWays
<1>1. iReq.word \in Words /\ iReq.part \in Parts /\ iReq.valid \in BOOLEAN
  BY DEF TypeOK, ITypeOK
<1>2. FetchWord \in Words
  <2>1. iReq.word[1] \in Lines
    BY <1>1 DEF Words
  <2>2. iReq.part = "SECOND" => iReq.word[1] + 1 \in Lines
    BY <2>1, FabricAssumption DEF CrossInv, MayCross, Lines
  <2> QED
    BY <1>1, <2>2, Members DEF FetchWord, Words
<1>3. FetchLine \in Lines /\ FetchWord[2] \in Beats
  BY <1>2 DEF FetchLine, Words
<1>4. FetchSet \in ISets
  BY <1>3, SizeFacts DEF FetchSet
<1>5. \A s \in ISets, w \in IWays : ILineAt(s, w) \in ILine
  BY DEF TypeOK, ITypeOK, ILineAt
<1>6. IWays \subseteq Nat
  BY SizeFacts
<1>7. IHitWays \in SUBSET Nat /\ IHitWays \subseteq IWays
  BY <1>6 DEF IHitWays
<1>8. IInvalidWays \in SUBSET Nat /\ IInvalidWays \subseteq IWays
  BY <1>6 DEF IInvalidWays
<1>9. IHitWays # {} => Min(IHitWays) \in IHitWays
  BY <1>7, MinFacts
<1>10. ASSUME NEW plru \in IWays
       PROVE  IAllocWay(plru) \in IWays
  <2>1. IInvalidWays # {} => Min(IInvalidWays) \in IInvalidWays
    BY <1>8, MinFacts
  <2> QED
    BY <1>8, <2>1 DEF IAllocWay
<1> QED
  BY <1>1, <1>2, <1>3, <1>4, <1>5, <1>7, <1>9, <1>10

(* What the front end asks for.                                            *)
LEMMA FetchOffers ==
  ASSUME NEW fetch \in Fetches
  PROVE  /\ fetch \in [valid : BOOLEAN, word : Words, part : Parts]
         /\ fetch.part # "ALL" => MayCross(fetch.word)
         /\ fetch.valid => IReady(InvAll)
         /\ fetch.part # "SECOND"
<1>1. FetchWords \subseteq Words
  BY ProgramAssumption
<1>2. CASE fetch = NoFetch
  BY <1>2, Members DEF NoFetch, Parts
<1>3. CASE fetch # NoFetch
  <2>1. /\ IReady(InvAll)
        /\ \/ \E w \in FetchWords : fetch = Fetch(w, "ALL")
           \/ \E w \in FetchWords : MayCross(w) /\ fetch = Fetch(w, "FIRST")
    BY <1>3 DEF Fetches
  <2>2. PICK w \in FetchWords, part \in {"ALL", "FIRST"} :
          fetch = Fetch(w, part) /\ (part = "FIRST" => MayCross(w))
    BY <2>1
  <2>3. fetch.valid /\ fetch.word = w /\ fetch.part = part
    BY <2>2 DEF Fetch
  <2>4. fetch \in [valid : BOOLEAN, word : Words, part : Parts]
    BY <1>1, <2>2 DEF Fetch, Parts
  <2> QED
    BY <2>1, <2>2, <2>3, <2>4
<1> QED
  BY <1>2, <1>3

(* The instruction cache keeps its types.                                  *)
LEMMA FetchCacheTyping ==
  ASSUME TypeOK, CrossInv, NEW fetch \in Fetches, NEW plru \in IWays,
         NEW invAll \in BOOLEAN, NEW taken \in BOOLEAN,
         IClock(fetch, plru, invAll, taken)
  PROVE  ITypeOK' /\ CrossInv'
<1>1. iEngine' \in Engine
  <2>1. IStart \in Engine
    BY FetchTypes, StartTypes, Members DEF IStart, NoData, StartRead, Engine, NoEngine
  <2> QED
    BY <2>1, FieldTypes, EngineType DEF IClock, Masters
<1>2. iLines' \in [ISets \X IWays -> ILine]
  <2>1. /\ iLines \in [ISets \X IWays -> ILine] /\ iWay \in IWays
        /\ iEngine.data \in LineData
    BY DEF TypeOK, ITypeOK, Engine
  <2>2. [iLines EXCEPT ![<<FetchSet, iWay>>] =
                    [valid |-> TRUE, line |-> FetchLine, data |-> iEngine.data]]
          \in [ISets \X IWays -> ILine]
    BY <2>1, FetchTypes DEF ILine
  <2>3. ASSUME NEW lines \in [ISets \X IWays -> ILine]
        PROVE  ILinesAfter(invAll, lines) \in [ISets \X IWays -> ILine]
    BY Members DEF ILinesAfter
  <2> QED
    BY <2>1, <2>2, <2>3 DEF IClock, IAccept, IResolveHit, IResolveMiss, IRest, IMissFill,
       IMissFinish
<1>3. ASSUME NEW data \in LineData, IGet(data)
      PROVE  /\ iHold' \in [valid : BOOLEAN, got : SUBSET (Words \X WordValues)]
             /\ iReq' \in [valid : BOOLEAN, word : Words, part : Parts]
             /\ iPending' \in BOOLEAN /\ CrossInv'
  <2>1. data[FetchWord[2]] \in WordValues
    BY FetchTypes DEF LineData
  <2>2. iHold.got \subseteq Words \X WordValues
    BY DEF TypeOK, ITypeOK
  <2>3. iHold.got \cup {<<FetchWord, data[FetchWord[2]]>>} \in SUBSET (Words \X WordValues)
    BY <2>1, <2>2, FetchTypes
  <2>4. iHold' \in [valid : BOOLEAN, got : SUBSET (Words \X WordValues)]
    BY <1>3, <2>3 DEF IGet
  <2>5. iReq \in [valid : BOOLEAN, word : Words, part : Parts]
    BY DEF TypeOK, ITypeOK
  <2>6. iReq' = [iReq EXCEPT !.part = IF iReq.part = "FIRST" THEN "SECOND" ELSE "ALL"]
    BY <1>3 DEF IGet
  <2>7. iReq' \in [valid : BOOLEAN, word : Words, part : Parts]
    BY <2>5, <2>6 DEF Parts
  <2>8. CrossInv'
    BY <2>5, <2>6 DEF CrossInv, MayCross
  <2> QED
    BY <1>3, <2>4, <2>7, <2>8 DEF IGet
<1>4. /\ iHold' \in [valid : BOOLEAN, got : SUBSET (Words \X WordValues)]
      /\ iReq' \in [valid : BOOLEAN, word : Words, part : Parts]
      /\ iPending' \in BOOLEAN /\ CrossInv'
  <2>1. /\ iHold \in [valid : BOOLEAN, got : SUBSET (Words \X WordValues)]
        /\ iReq \in [valid : BOOLEAN, word : Words, part : Parts] /\ iPending \in BOOLEAN
    BY DEF TypeOK, ITypeOK
  <2>2. CASE IAccept(fetch, invAll)
    BY <2>1, <2>2, FetchOffers DEF IAccept, CrossInv, MayCross
  <2>3. CASE IResolveHit(fetch, invAll)
    <3>1. ILineAt(FetchSet, Min(IHitWays)).data \in LineData
      BY <2>3, FetchTypes DEF IResolveHit, ILine
    <3> QED
      BY <1>3, <2>3, <3>1 DEF IResolveHit
  <2>4. CASE IResolveMiss(fetch, plru, invAll)
    BY <2>1, <2>4 DEF IResolveMiss, CrossInv, MayCross
  <2>5. CASE IRest(fetch, invAll, taken)
    <3>1. NoInstrs \in [valid : BOOLEAN, got : SUBSET (Words \X WordValues)]
      BY DEF NoInstrs
    <3>2. NoFetch \in [valid : BOOLEAN, word : Words, part : Parts] /\ NoFetch.part = "ALL"
      BY Members DEF NoFetch, Parts
    <3>3. iReq' \in {iReq, NoFetch} /\ iHold' \in {iHold, NoInstrs} /\ iPending' = iPending
      BY <2>5 DEF IRest, IHoldAfter, IReqAfter
    <3> QED
      BY <2>1, <3>1, <3>2, <3>3 DEF CrossInv, MayCross
  <2>6. CASE IMissFill(invAll)
    BY <2>1, <2>6 DEF IMissFill, CrossInv, MayCross
  <2>7. CASE IMissFinish(invAll)
    <3>1. iEngine.data \in LineData
      BY FieldTypes DEF Engine
    <3> QED
      BY <1>3, <2>7, <3>1 DEF IMissFinish
  <2> QED
    BY <2>2, <2>3, <2>4, <2>5, <2>6, <2>7 DEF IClock
<1>5. iState' \in {"IDLE", "MISS_FILL", "MISS_FINISH"} /\ iWay' \in IWays
  BY FetchTypes, Members DEF TypeOK, ITypeOK, IClock, IAccept, IResolveHit, IResolveMiss,
     IRest, IMissFill, IMissFinish
<1> QED
  BY <1>1, <1>2, <1>4, <1>5 DEF ITypeOK

(* One cycle keeps all types.                                              *)
LEMMA CycleTyping ==
  ASSUME TypeOK, CrossInv, NEW access \in Offers, NEW fetch \in Fetches,
         NEW dPlru \in Ways, NEW iPlru \in IWays, NEW taken \in BOOLEAN,
         Cycle(access, fetch, dPlru, iPlru, taken)
  PROVE  TypeOK' /\ CrossInv'
<1>1. /\ FabricClock(dEngine, iEngine)
      /\ DClock(access, dPlru, FlushReq)
      /\ IClock(fetch, iPlru, InvAll, taken)
      /\ CohClock /\ FenceClock(access)
      /\ fresh' = [w \in Words |->
                     (IF FenceCommits THEN {} ELSE fresh[w]) \cup {Contents'[w]}]
      /\ old' = IF FenceCommits THEN iReq.valid /\ ~(iHold.valid /\ taken)
                ELSE old /\ iReq'.valid
  BY DEF Cycle
<1>2. FlushReq \in BOOLEAN /\ InvAll \in BOOLEAN
  BY DEF FlushReq, InvAll
<1>3. FabricTypeOK'
  BY <1>1, FabricTyping
<1>4. DTypeOK'
  BY <1>1, <1>2, DataCacheTyping, OfferTypes
<1>5. ITypeOK' /\ CrossInv'
  BY <1>1, <1>2, FetchCacheTyping
<1>6. coh' \in {"IDLE", "FLUSH", "INV", "DONE"}
  BY <1>1 DEF CohClock
<1>7. fence' \in BOOLEAN
  BY <1>1 DEF FenceClock, FenceCommits, CohDone, TypeOK
<1>8. fresh' \in [Words -> SUBSET WordValues]
  <2>1. ContentsTyped'
    BY ContentsType, PTL
  <2>2. \A w \in Words : Contents'[w] \in WordValues
    BY <1>3, <1>4, <2>1 DEF ContentsTyped
  <2>3. \A w \in Words : fresh[w] \in SUBSET WordValues
    BY DEF TypeOK
  <2> QED
    BY <1>1, <2>2, <2>3
<1>9. old' \in BOOLEAN
  <2>1. iHold.valid \in BOOLEAN /\ iReq.valid \in BOOLEAN /\ iReq'.valid \in BOOLEAN
    BY <1>5 DEF TypeOK, ITypeOK
  <2> QED
    BY <1>1, <2>1 DEF TypeOK
<1> QED
  BY <1>3, <1>4, <1>5, <1>6, <1>7, <1>8, <1>9 DEF TypeOK

(* The initial state has its types.                                        *)
LEMMA InitTyping == Init => TypeOK /\ CrossInv
<1> SUFFICES ASSUME Init PROVE TypeOK /\ CrossInv
  OBVIOUS
<1>1. FabricTypeOK
  BY Members DEF Init, FabricInit, FabricTypeOK, NoPort, WordValues, Masters
<1>2. DTypeOK
  BY Members DEF Init, DInit, DTypeOK, DStates, NoMiss, NoAnswer, NoWalk, WordValues
<1>3. ITypeOK /\ CrossInv
  BY Members DEF Init, IInit, ITypeOK, CrossInv, NoFetch, NoInstrs, Parts
<1> QED
  BY <1>1, <1>2, <1>3 DEF Init, TypeOK, WordValues

(* Every register of caches, bus and memory keeps its type.                *)
THEOREM MemoryTypeCorrect == Spec => [](TypeOK /\ CrossInv)
<1>1. TypeOK /\ CrossInv /\ [Next]_vars => (TypeOK /\ CrossInv)'
  <2> SUFFICES ASSUME TypeOK, CrossInv, [Next]_vars PROVE TypeOK' /\ CrossInv'
    OBVIOUS
  <2>1. CASE Next
    BY <2>1, CycleTyping DEF Next
  <2>2. CASE UNCHANGED vars
    BY <2>2 DEF vars, dVars, iVars, fabricVars, TypeOK, CrossInv, FabricTypeOK, DTypeOK,
       ITypeOK, MayCross
  <2> QED
    BY <2>1, <2>2
<1> QED
  BY <1>1, InitTyping, PTL DEF Spec

-----------------------------------------------------------------------------
(* Control of the data cache: which registers belong together.             *)
MissStates == {"MISS_WB", "MISS_FILL", "MISS_FINISH"}
WalkStates == {"FLUSH_SCAN", "FLUSH_WB"}

ControlInv ==
  /\ dMshr.busy <=> dState \in MissStates
  /\ dWalk.active <=> dState \in WalkStates
  /\ dPending => dState = "IDLE" /\ dHold = NoAnswer
  /\ dPending \/ dMshr.busy => dReq.op # "NONE"
  /\ dHold # NoAnswer => dState = "IDLE" /\ dHold.st = dReq.op /\ dReq.op # "NONE"
  /\ dReq.op = "READ" => dReq.val = 0
  /\ dWalk.active => dReq = NoRequest
  /\ dDone => dState = "IDLE"

(* A line that would have to be written back.                              *)
Dirty(s, w) == LineAt(s, w).valid /\ LineAt(s, w).dirty
AllClean == \A s \in Sets, w \in Ways : ~Dirty(s, w)

(* The walk of a FENCE.I: the lines behind it are clean, and when it has   *)
(* passed all of them they stay clean, since no store is in the cache from *)
(* then on until the FENCE.I has committed.                                *)
WalkInv ==
  /\ fence \/ coh # "IDLE" => dReq.op # "WRITE"
  /\ coh \in {"FLUSH", "INV"} => fence
  /\ dDone => AllClean
  /\ coh \in {"INV", "DONE"} => AllClean
  /\ dWalk.active =>
       \A s \in Sets, w \in Ways :
         s < dWalk.set \/ (s = dWalk.set /\ w < dWalk.way) => ~Dirty(s, w)

(* A cycle preserves ControlInv.                                           *)
LEMMA ControlStep ==
  ASSUME TypeOK, CrossInv, ControlInv, NEW access \in Offers, NEW plru \in Ways,
         DClock(access, plru, FlushReq)
  PROVE  ControlInv'
<1>1. /\ dState \in DStates /\ dPending \in BOOLEAN /\ dDone \in BOOLEAN
      /\ dMshr.busy \in BOOLEAN /\ dWalk.active \in BOOLEAN
      /\ dReq.op \in {"NONE", "READ", "WRITE"}
  BY FieldTypes DEF TypeOK, DTypeOK
<1>2. CASE DAccept(access)
  <2>1. /\ DReady(FlushReq) /\ access.op \in {"READ", "WRITE"}
        /\ access.op = "READ" => access.val = 0
    BY <1>2, OfferTypes DEF DAccept
  <2> QED
    BY <1>1, <1>2, <2>1 DEF DAccept, DReady, ControlInv, MissStates, WalkStates
<1>3. ASSUME NEW data
      PROVE  /\ Answer(data).st = dReq.op
             /\ dReq.op # "NONE" => Answer(data) # NoAnswer
  BY DEF Answer, NoAnswer
<1>4. CASE DResolveHit(access)
  BY <1>1, <1>3, <1>4 DEF DResolveHit, ControlInv, MissStates, WalkStates
<1>5. CASE DResolveMiss(access, plru)
  BY <1>1, <1>5 DEF DResolveMiss, ControlInv, MissStates, WalkStates
<1>6. CASE DStartWalk(access, FlushReq)
  BY <1>1, <1>6 DEF DStartWalk, ControlInv, MissStates, WalkStates, NoWalk, NoRequest
<1>7. CASE DRest(access, FlushReq)
  BY <1>1, <1>7 DEF DRest, ControlInv, MissStates, WalkStates, NoRequest
<1>8. CASE DMissWriteBack \/ DMissFill
  BY <1>1, <1>8 DEF DMissWriteBack, DMissFill, ControlInv, MissStates, WalkStates
<1>9. CASE DMissFinish
  BY <1>1, <1>3, <1>9 DEF DMissFinish, ControlInv, MissStates, WalkStates, NoMiss
<1>10. ASSUME DWalkOn, dState \in WalkStates,
              UNCHANGED <<dReq, dPending, dMshr, dHold>>
       PROVE  ControlInv'
  <2>1. dWalk'.active = ~WalkLast
    BY <1>1, <1>10 DEF DWalkOn, WalkNext, NoWalk, ControlInv, TypeOK, DTypeOK
  <2> QED
    BY <1>1, <1>10, <2>1 DEF DWalkOn, ControlInv, MissStates, WalkStates
<1>11. CASE DFlushScan
  <2>1. CASE WalkDirty
    BY <1>1, <1>11, <2>1 DEF DFlushScan, ControlInv, MissStates, WalkStates
  <2>2. CASE ~WalkDirty
    BY <1>10, <1>11, <2>2 DEF DFlushScan, WalkStates
  <2> QED
    BY <2>1, <2>2
<1>12. CASE DFlushWriteBack
  <2>1. CASE EngineDone
    BY <1>10, <1>12, <2>1 DEF DFlushWriteBack, WalkStates
  <2>2. CASE ~EngineDone
    BY <1>1, <1>12, <2>2 DEF DFlushWriteBack, ControlInv, MissStates, WalkStates
  <2> QED
    BY <2>1, <2>2
<1> QED
  BY <1>2, <1>4, <1>5, <1>6, <1>7, <1>8, <1>9, <1>11, <1>12 DEF DClock

(* A line gets dirty only by a store, and the walk leaves a clean one.     *)
LEMMA DirtyChange ==
  ASSUME TypeOK, NEW access, NEW plru, NEW flushReq, DClock(access, plru, flushReq),
         NEW s \in Sets, NEW w \in Ways, Dirty(s, w)'
  PROVE  /\ Dirty(s, w) \/ (dReq.op = "WRITE" /\ (dPending \/ dState = "MISS_FINISH"))
         /\ dState \in WalkStates /\ DWalkOn => <<s, w>> # <<dWalk.set, dWalk.way>>
<1> <<s, w>> \in Sets \X Ways
  OBVIOUS
<1>1. dLines \in [Sets \X Ways -> Line]
  BY DEF TypeOK, DTypeOK
<1>2. CASE dLines' = dLines /\ dState \notin WalkStates
  BY <1>2 DEF Dirty, LineAt
<1>3. CASE DResolveHit(access)
  <2>1. CASE dReq.op = "WRITE"
    BY <1>3, <2>1 DEF DResolveHit, WalkStates
  <2>2. CASE dReq.op # "WRITE"
    <3>1. dLines' = dLines /\ dState \notin WalkStates
      BY <1>3, <2>2 DEF DResolveHit, WalkStates
    <3> QED
      BY <1>2, <3>1
  <2> QED
    BY <2>1, <2>2
<1>4. CASE DMissFinish
  <2>1. dState = "MISS_FINISH"
    BY <1>4 DEF DMissFinish
  <2>2. CASE dReq.op # "WRITE"
    <3>1. dLines' = [dLines EXCEPT ![<<LookupSet, dMshr.way>>] =
                        [valid |-> TRUE, dirty |-> dReq.op = "WRITE",
                         line |-> LookupLine, data |-> Merged(dEngine.data)]]
      BY <1>4 DEF DMissFinish
    <3>2. <<s, w>> # <<LookupSet, dMshr.way>>
      BY <1>1, <2>2, <3>1 DEF Dirty, LineAt
    <3> QED
      BY <1>1, <2>1, <3>1, <3>2 DEF Dirty, LineAt, WalkStates
  <2> QED
    BY <2>1, <2>2 DEF WalkStates
<1>5. CASE DFlushScan
  <2>1. dLines' = dLines
    BY <1>5 DEF DFlushScan
  <2>2. DWalkOn => ~Dirty(dWalk.set, dWalk.way)
    BY <1>5 DEF DFlushScan, DWalkOn, WalkDirty, WalkLine, Dirty
  <2> QED
    BY <2>1, <2>2 DEF Dirty, LineAt
<1>6. CASE DFlushWriteBack
  <2>1. CASE EngineDone
    <3>1. dLines' = [dLines EXCEPT ![<<dWalk.set, dWalk.way>>].dirty = FALSE]
      BY <1>6, <2>1 DEF DFlushWriteBack
    <3>2. <<dWalk.set, dWalk.way>> \in Sets \X Ways
      BY FieldTypes
    <3>3. dLines[<<dWalk.set, dWalk.way>>] \in Line
      BY <1>1, <3>2
    <3>4. <<s, w>> # <<dWalk.set, dWalk.way>>
      BY <1>1, <3>1, <3>2, <3>3 DEF Dirty, LineAt, Line
    <3> QED
      BY <1>1, <3>1, <3>4 DEF Dirty, LineAt
  <2>2. CASE ~EngineDone
    BY <1>6, <2>2 DEF DFlushWriteBack, DWalkOn, Dirty, LineAt, TypeOK, DTypeOK, WalkLast
  <2> QED
    BY <2>1, <2>2
<1> QED
  BY <1>2, <1>3, <1>4, <1>5, <1>6 DEF DClock, DAccept, DResolveMiss, DStartWalk, DRest,
     DMissWriteBack, DMissFill, WalkStates

(* The registers of the walk move together.                                *)
LEMMA WalkMoves ==
  ASSUME TypeOK, ControlInv, NEW access, NEW plru, DClock(access, plru, FlushReq)
  PROVE  /\ dDone' => dState \in WalkStates /\ DWalkOn /\ WalkLast
         /\ dWalk'.active =>
              \/ dWalk'.set = 0 /\ dWalk'.way = 0
              \/ dState \in WalkStates /\ dWalk' = dWalk
              \/ dState \in WalkStates /\ DWalkOn /\ ~WalkLast /\ dWalk' = WalkNext
         /\ dReq' \in {dReq, NoRequest} \/ (access # NoRequest /\ dReq' = access)
<1>1. dDone \in BOOLEAN
  BY DEF TypeOK, DTypeOK
<1>2. dWalk \in [active : BOOLEAN, set : Sets, way : Ways]
  BY DEF TypeOK, DTypeOK
<1>3. CASE DAccept(access) \/ DResolveHit(access) \/ DResolveMiss(access, plru)
           \/ DRest(access, FlushReq)
  BY <1>1, <1>3 DEF DAccept, DResolveHit, DResolveMiss, DRest, ControlInv, WalkStates
<1>4. CASE DStartWalk(access, FlushReq)
  BY <1>1, <1>4 DEF DStartWalk, NoWalk
<1>5. CASE DMissWriteBack \/ DMissFill \/ DMissFinish
  BY <1>1, <1>5 DEF DMissWriteBack, DMissFill, DMissFinish, ControlInv, WalkStates
<1>6. ASSUME DWalkOn, dState \in WalkStates, dReq' = dReq
      PROVE  /\ dDone' => WalkLast
             /\ dWalk'.active => ~WalkLast /\ dWalk' = WalkNext
             /\ dReq' \in {dReq, NoRequest}
  BY <1>1, <1>6 DEF DWalkOn, WalkNext, NoWalk
<1>7. CASE DFlushScan
  <2>1. dState \in WalkStates /\ dReq' = dReq
    BY <1>7 DEF DFlushScan, WalkStates
  <2>2. DWalkOn \/ (dWalk' = dWalk /\ dDone' = dDone)
    BY <1>7 DEF DFlushScan
  <2> QED
    BY <1>6, <2>1, <2>2 DEF ControlInv, WalkStates
<1>8. CASE DFlushWriteBack
  <2>1. dState \in WalkStates /\ dReq' = dReq
    BY <1>8 DEF DFlushWriteBack, WalkStates
  <2>2. DWalkOn \/ (dWalk' = dWalk /\ dDone' = dDone)
    BY <1>8 DEF DFlushWriteBack
  <2> QED
    BY <1>6, <2>1, <2>2 DEF ControlInv, WalkStates
<1> QED
  BY <1>3, <1>4, <1>5, <1>7, <1>8 DEF DClock

(* A cycle preserves WalkInv.                                              *)
LEMMA WalkStep ==
  ASSUME TypeOK, CrossInv, ControlInv, WalkInv,
         NEW access \in Offers, NEW plru \in Ways, CohClock, FenceClock(access),
         DClock(access, plru, FlushReq)
  PROVE  WalkInv'
<1>1. /\ fence \in BOOLEAN /\ coh \in {"IDLE", "FLUSH", "INV", "DONE"}
      /\ dDone \in BOOLEAN
  BY DEF TypeOK, DTypeOK
<1>2. fence \/ coh # "IDLE" => dReq.op # "WRITE"
  BY DEF WalkInv
<1>3. NoRequest.op = "NONE" /\ (fence => access = NoRequest)
  BY OfferTypes DEF NoRequest
<1>4. /\ coh' \in {"FLUSH", "INV"} => fence /\ fence'
      /\ fence' \/ coh' # "IDLE" => dReq'.op # "WRITE"
  <2>1. coh' # "IDLE" => fence
    BY <1>1 DEF CohClock
  <2>2. coh' \in {"FLUSH", "INV"} => coh \in {"IDLE", "FLUSH"}
    BY <1>1 DEF CohClock
  <2>3. fence /\ coh \in {"IDLE", "FLUSH"} => fence'
    BY DEF FenceClock, FenceCommits, CohDone
  <2>4. fence' /\ ~fence => dReq.op # "WRITE" /\ access.op # "WRITE"
    BY DEF FenceClock
  <2> QED
    BY <1>2, <1>3, <2>1, <2>2, <2>3, <2>4, WalkMoves
<1>5. ASSUME dReq.op # "WRITE" \/ dState \in WalkStates,
             NEW s \in Sets, NEW w \in Ways, Dirty(s, w)'
      PROVE  Dirty(s, w)
  <2>1. dState \in WalkStates => dReq.op = "NONE"
    BY <1>3 DEF ControlInv
  <2> QED
    BY <1>5, <2>1, DirtyChange
<1>6. dDone' => AllClean'
  <2> SUFFICES ASSUME dDone', NEW s \in Sets, NEW w \in Ways PROVE ~Dirty(s, w)'
    BY DEF AllClean
  <2>1. dState \in WalkStates /\ DWalkOn /\ WalkLast
    BY WalkMoves
  <2>2. dWalk.set = NUM_SETS - 1 /\ dWalk.way = NUM_WAYS - 1 /\ dWalk.active
    BY <2>1 DEF WalkLast, ControlInv
  <2>3. (s = dWalk.set /\ w = dWalk.way) \/ ~Dirty(s, w)
    <3>1. \/ s < dWalk.set \/ (s = dWalk.set /\ w < dWalk.way)
          \/ s = dWalk.set /\ w = dWalk.way
      BY <2>2, CacheAssumption DEF Sets, Ways
    <3> QED
      BY <2>2, <3>1 DEF WalkInv
  <2> QED
    BY <1>5, <2>1, <2>3, DirtyChange
<1>7. coh' \in {"INV", "DONE"} => AllClean'
  <2> SUFFICES ASSUME coh' \in {"INV", "DONE"}, NEW s \in Sets, NEW w \in Ways
               PROVE  ~Dirty(s, w)'
    BY DEF AllClean
  <2>1. fence /\ (coh \in {"INV", "DONE"} \/ dDone)
    BY <1>1 DEF CohClock
  <2>2. ~Dirty(s, w)
    BY <2>1 DEF WalkInv, AllClean
  <2> QED
    BY <1>2, <1>5, <2>1, <2>2
<1>8. ASSUME dWalk'.active, NEW s \in Sets, NEW w \in Ways,
             s < dWalk'.set \/ (s = dWalk'.set /\ w < dWalk'.way)
      PROVE  ~Dirty(s, w)'
  <2>1. CASE dWalk'.set = 0 /\ dWalk'.way = 0
    BY <1>8, <2>1, SizeFacts
  <2>2. CASE dState \in WalkStates /\ dWalk' = dWalk
    <3>1. ~Dirty(s, w)
      BY <1>8, <2>2 DEF WalkInv, ControlInv
    <3> QED
      BY <1>5, <2>2, <3>1
  <2>3. CASE dState \in WalkStates /\ DWalkOn /\ ~WalkLast /\ dWalk' = WalkNext
    <3>1. /\ dWalk.set \in Nat /\ dWalk.way \in Nat /\ s \in Nat /\ w \in Nat
          /\ w <= NUM_WAYS - 1 /\ dWalk.way <= NUM_WAYS - 1
          /\ dWalk \in [active : BOOLEAN, set : Sets, way : Ways]
      BY FieldTypes, CacheAssumption DEF Sets, Ways, TypeOK, DTypeOK
    <3>2. \/ dWalk'.set = dWalk.set + 1 /\ dWalk'.way = 0 /\ dWalk.way = NUM_WAYS - 1
          \/ dWalk'.set = dWalk.set /\ dWalk'.way = dWalk.way + 1
      BY <2>3, <3>1 DEF WalkNext
    <3>3. \/ s < dWalk.set \/ (s = dWalk.set /\ w < dWalk.way)
          \/ s = dWalk.set /\ w = dWalk.way
      BY <1>8, <3>1, <3>2, CacheAssumption
    <3>4. dWalk.active
      BY <2>3 DEF ControlInv
    <3>5. (s = dWalk.set /\ w = dWalk.way) \/ ~Dirty(s, w)
      BY <3>3, <3>4 DEF WalkInv
    <3> QED
      BY <1>5, <2>3, <3>5, DirtyChange
  <2> QED
    BY <1>8, <2>1, <2>2, <2>3, WalkMoves
<1> QED
  BY <1>4, <1>6, <1>7, <1>8 DEF WalkInv

(* The invariant so far, as one step and for all behaviours.               *)
FenceInv == TypeOK /\ CrossInv /\ ControlInv /\ WalkInv

(* It holds at reset,                                                      *)
LEMMA FenceInvInit == Init => FenceInv
<1> SUFFICES ASSUME Init PROVE FenceInv
  OBVIOUS
<1>1. ControlInv
  BY DEF Init, DInit, ControlInv, NoMiss, NoWalk, NoAnswer, NoRequest, MissStates,
     WalkStates
<1>2. WalkInv
  BY DEF Init, DInit, WalkInv, NoWalk, NoRequest
<1> QED
  BY <1>1, <1>2, InitTyping DEF FenceInv

(* every cycle preserves it,                                               *)
LEMMA FenceInvStep == FenceInv /\ [Next]_vars => FenceInv'
<1> SUFFICES ASSUME FenceInv, [Next]_vars PROVE FenceInv'
  OBVIOUS
<1>1. CASE Next
  <2>1. PICK access \in Offers, fetch \in Fetches, dPlru \in Ways, iPlru \in IWays,
             taken \in BOOLEAN : Cycle(access, fetch, dPlru, iPlru, taken)
    BY <1>1 DEF Next
  <2> QED
    BY <2>1, CycleTyping, ControlStep, WalkStep DEF FenceInv, Cycle
<1>2. CASE UNCHANGED vars
  <2>1. TypeOK' /\ CrossInv'
    BY <1>2 DEF vars, dVars, iVars, fabricVars, TypeOK, CrossInv, FabricTypeOK, DTypeOK,
       ITypeOK, MayCross, FenceInv
  <2>2. ControlInv'
    BY <1>2 DEF vars, dVars, ControlInv, FenceInv
  <2>3. WalkInv'
    BY <1>2 DEF vars, dVars, WalkInv, FenceInv, AllClean, Dirty, LineAt
  <2> QED
    BY <2>1, <2>2, <2>3 DEF FenceInv
<1> QED
  BY <1>1, <1>2

(* and so it always holds.                                                 *)
THEOREM FenceInvariant == Spec => []FenceInv
  BY FenceInvInit, FenceInvStep, PTL DEF Spec

(* From the invalidation to the end of a FENCE.I the data cache holds no   *)
(* dirty line, for every geometry of the cache: the walk misses none, a    *)
(* pulse of an earlier walk answers the fence only when that walk has left *)
(* the cache clean, and no store comes in between.                         *)
THEOREM NoDirtyLineAtDone == Spec => []CleanAtDone
<1>1. FenceInv => CleanAtDone
  BY DEF FenceInv, WalkInv, AllClean, Dirty, CleanAtDone
<1> QED
  BY <1>1, FenceInvariant, PTL

-----------------------------------------------------------------------------
(* The bus.  A bridge that is busy carries the word that its engine is     *)
(* at, and what it has been granted it holds alone.                        *)
EngineOf(m) == IF m = "D" THEN dEngine ELSE iEngine
WriteStates == {"WRITE_ADDR", "WRITE_DATA", "WRITE_RESP"}
ReadStates == {"READ_ADDR", "READ_DATA"}

BridgeInv ==
  /\ \A m \in Masters :
       /\ bridge[m].st # "IDLE" =>
            EngineOf(m).st = "REQ" /\ bridge[m].word = EngineWord(EngineOf(m))
       /\ bridge[m].st \in WriteStates =>
            EngineOf(m).write /\ bridge[m].val = EngineOf(m).data[EngineOf(m).beat]
       /\ bridge[m].st \in ReadStates => ~EngineOf(m).write
       /\ bridge[m].st \in {"WRITE_DATA", "WRITE_RESP"} => Serves(m, "WRITE")
       /\ bridge[m].st = "READ_DATA" => Serves(m, "READ")
  /\ ~iEngine.write

(* What the caches tell their engines.                                     *)
LEMMA StartFacts ==
  /\ DStart.st # "IDLE" => DStart.st = "REQ" /\ DStart.beat = 0
  /\ IStart.st # "IDLE" => IStart.st = "REQ" /\ IStart.beat = 0
  /\ ~IStart.write
  BY DEF DStart, IStart, StartRead, StartWrite, NoEngine

(* A bridge leaves its state only by a handshake that the crossbar serves. *)
Goes(m, from, to) ==
  bridge[m].st = from /\ bridge'[m].st = to /\ bridge'[m].word = bridge[m].word

(* The moves of a bridge.                                                  *)
LEMMA BridgeMoves ==
  ASSUME TypeOK, FabricClock(dEngine, iEngine), NEW m \in Masters
  PROVE  \/ /\ bridge[m].st = "IDLE" /\ EngineOf(m).st = "REQ"
            /\ bridge'[m].word = EngineWord(EngineOf(m))
            /\ IF EngineOf(m).write
                 THEN /\ bridge'[m].st = "WRITE_ADDR"
                      /\ bridge'[m].val = EngineOf(m).data[EngineOf(m).beat]
               ELSE bridge'[m].st = "READ_ADDR"
         \/ bridge[m].st = "IDLE" /\ EngineOf(m).st # "REQ" /\ bridge'[m].st = "IDLE"
         \/ /\ AddrWritten(m) /\ Goes(m, "WRITE_ADDR", "WRITE_DATA")
            /\ bridge'[m].val = bridge[m].val
         \/ /\ DataWritten(m) /\ Goes(m, "WRITE_DATA", "WRITE_RESP")
            /\ bridge'[m].val = bridge[m].val
         \/ WriteAnswered(m) /\ Goes(m, "WRITE_RESP", "ACK")
         \/ AddrRead(m) /\ Goes(m, "READ_ADDR", "READ_DATA")
         \/ DataRead(m) /\ Goes(m, "READ_DATA", "ACK") /\ bridge'[m].val = sramPort.val
         \/ bridge[m].st = "ACK" /\ bridge'[m].st = "IDLE"
         \/ /\ bridge[m].st \notin {"IDLE", "ACK"} /\ bridge'[m] = bridge[m]
            /\ ~AddrWritten(m) /\ ~DataWritten(m) /\ ~WriteAnswered(m)
            /\ ~AddrRead(m) /\ ~DataRead(m)
<1>1. bridge'[m] = BridgeNext(m, EngineOf(m))
  BY DEF FabricClock, EngineOf, Masters
<1>2. bridge[m] \in [st : BridgeStates, word : Words, val : WordValues]
  BY DEF TypeOK, FabricTypeOK
<1>3. CASE bridge[m].st = "IDLE"
  <2>1. /\ ~AddrWritten(m) /\ ~DataWritten(m) /\ ~WriteAnswered(m)
        /\ ~AddrRead(m) /\ ~DataRead(m)
    BY <1>3 DEF AddrWritten, DataWritten, WriteAnswered, AddrRead, DataRead
  <2> QED
    BY <1>1, <1>3, <2>1 DEF BridgeNext
<1>4. CASE bridge[m].st # "IDLE"
  <2>1. /\ AddrWritten(m) => bridge[m].st = "WRITE_ADDR"
        /\ DataWritten(m) => bridge[m].st = "WRITE_DATA"
        /\ WriteAnswered(m) => bridge[m].st = "WRITE_RESP"
        /\ AddrRead(m) => bridge[m].st = "READ_ADDR"
        /\ DataRead(m) => bridge[m].st = "READ_DATA"
    BY DEF AddrWritten, DataWritten, WriteAnswered, AddrRead, DataRead
  <2>2. CASE AddrWritten(m)
    <3>1. bridge'[m] = [bridge[m] EXCEPT !.st = "WRITE_DATA"]
      BY <1>1, <1>4, <2>1, <2>2 DEF BridgeNext
    <3> QED
      BY <1>2, <2>1, <2>2, <3>1 DEF Goes
  <2>3. CASE DataWritten(m)
    <3>1. bridge'[m] = [bridge[m] EXCEPT !.st = "WRITE_RESP"]
      BY <1>1, <1>4, <2>1, <2>3 DEF BridgeNext
    <3> QED
      BY <1>2, <2>1, <2>3, <3>1 DEF Goes
  <2>4. CASE WriteAnswered(m)
    <3>1. bridge'[m] = [bridge[m] EXCEPT !.st = "ACK"]
      BY <1>1, <1>4, <2>1, <2>4 DEF BridgeNext
    <3> QED
      BY <1>2, <2>1, <2>4, <3>1 DEF Goes
  <2>5. CASE AddrRead(m)
    <3>1. bridge'[m] = [bridge[m] EXCEPT !.st = "READ_DATA"]
      BY <1>1, <1>4, <2>1, <2>5 DEF BridgeNext
    <3> QED
      BY <1>2, <2>1, <2>5, <3>1 DEF Goes
  <2>6. CASE DataRead(m)
    <3>1. bridge'[m] = [bridge[m] EXCEPT !.st = "ACK", !.val = sramPort.val]
      BY <1>1, <1>4, <2>1, <2>6 DEF BridgeNext
    <3> QED
      BY <1>2, <2>1, <2>6, <3>1 DEF Goes
  <2>7. CASE /\ ~AddrWritten(m) /\ ~DataWritten(m) /\ ~WriteAnswered(m)
             /\ ~AddrRead(m) /\ ~DataRead(m)
    BY <1>1, <1>4, <2>7 DEF BridgeNext, NoBridge
  <2> QED
    BY <2>2, <2>3, <2>4, <2>5, <2>6, <2>7
<1> QED
  BY <1>3, <1>4

(* The crossbar stays with its owner until the transaction has ended.      *)
LEMMA XbarMoves ==
  ASSUME TypeOK, BridgeInv, xbar' = XbarNext, NEW m \in Masters
  PROVE  /\ AddrWritten(m) => xbar'.st = "WRITE" /\ xbar'.owner = m
         /\ AddrRead(m) => xbar'.st = "READ" /\ xbar'.owner = m
         /\ /\ bridge[m].st \in {"WRITE_DATA", "WRITE_RESP", "READ_DATA"}
            /\ ~WriteAnswered(m) /\ ~DataRead(m)
            => xbar' = xbar
<1>1. xbar \in [st : {"IDLE", "ADDR", "WRITE", "READ"}, owner : Masters,
                write : BOOLEAN, rr : Masters]
  BY DEF TypeOK, FabricTypeOK
<1>2. AddrWritten(m) => xbar'.st = "WRITE" /\ xbar'.owner = m
  <2> HAVE AddrWritten(m)
  <2>1. xbar.st = "ADDR" /\ xbar.owner = m /\ (\E n \in Masters : AddrWritten(n))
    BY DEF AddrWritten, Serves
  <2>2. /\ ~(xbar.st = "IDLE" /\ Requesting # {})
        /\ ~(\E n \in Masters : AddrRead(n))
        /\ ~(\E n \in Masters : WriteAnswered(n) \/ DataRead(n))
    BY <2>1 DEF AddrWritten, AddrRead, WriteAnswered, DataRead, Serves
  <2>3. xbar' = [xbar EXCEPT !.st = "WRITE"]
    BY <2>1, <2>2 DEF XbarNext
  <2> QED
    BY <1>1, <2>1, <2>3
<1>3. AddrRead(m) => xbar'.st = "READ" /\ xbar'.owner = m
  <2> HAVE AddrRead(m)
  <2>1. xbar.st = "ADDR" /\ xbar.owner = m /\ (\E n \in Masters : AddrRead(n))
    BY DEF AddrRead, Serves
  <2>2. /\ ~(xbar.st = "IDLE" /\ Requesting # {})
        /\ ~(\E n \in Masters : AddrWritten(n))
        /\ ~(\E n \in Masters : WriteAnswered(n) \/ DataRead(n))
    BY <2>1 DEF AddrWritten, AddrRead, WriteAnswered, DataRead, Serves
  <2>3. xbar' = [xbar EXCEPT !.st = "READ"]
    BY <2>1, <2>2 DEF XbarNext
  <2> QED
    BY <1>1, <2>1, <2>3
<1>4. ASSUME bridge[m].st \in {"WRITE_DATA", "WRITE_RESP", "READ_DATA"},
             ~WriteAnswered(m), ~DataRead(m)
      PROVE  xbar' = xbar
  <2>1. xbar.owner = m /\ xbar.st \in {"WRITE", "READ"}
    BY <1>4 DEF BridgeInv, Serves
  <2>2. /\ ~(xbar.st = "IDLE" /\ Requesting # {})
        /\ ~(\E n \in Masters : AddrWritten(n))
        /\ ~(\E n \in Masters : AddrRead(n))
        /\ ~(\E n \in Masters : WriteAnswered(n) \/ DataRead(n))
    BY <1>4, <2>1 DEF AddrWritten, AddrRead, WriteAnswered, DataRead, Serves
  <2> QED
    BY <2>2 DEF XbarNext
<1> QED
  BY <1>2, <1>3, <1>4

(* A cycle preserves BridgeInv.                                            *)
LEMMA BridgeStep ==
  ASSUME TypeOK, BridgeInv, FabricClock(dEngine, iEngine),
         dEngine' = EngineNext(dEngine, DStart, Ack("D"), bridge["D"].val),
         iEngine' = EngineNext(iEngine, IStart, Ack("I"), bridge["I"].val)
  PROVE  BridgeInv'
<1>1. ASSUME NEW m \in Masters
      PROVE  /\ bridge'[m] = BridgeNext(m, EngineOf(m))
             /\ EngineOf(m) \in Engine /\ Ack(m) \in BOOLEAN
             /\ \E start :
                  EngineOf(m)' = EngineNext(EngineOf(m), start, Ack(m), bridge[m].val)
  BY FieldTypes DEF FabricClock, EngineOf, Masters
<1>2. ~iEngine'.write
  <2>1. iEngine \in Engine /\ Ack("I") \in BOOLEAN
    BY FieldTypes DEF Masters
  <2>2. /\ iEngine.st = "IDLE" => iEngine' = IStart
        /\ iEngine.st = "REQ" => iEngine'.write = iEngine.write
        /\ iEngine.st = "DONE" => iEngine' = [iEngine EXCEPT !.st = "IDLE"]
    BY <2>1 DEF EngineNext, Engine
  <2> QED
    BY <2>1, <2>2, StartFacts DEF BridgeInv, Engine
<1>3. ASSUME NEW m \in Masters
      PROVE  /\ bridge'[m].st # "IDLE" =>
                  EngineOf(m)'.st = "REQ" /\ bridge'[m].word = EngineWord(EngineOf(m)')
             /\ bridge'[m].st \in WriteStates =>
                  /\ EngineOf(m)'.write
                  /\ bridge'[m].val = EngineOf(m)'.data[EngineOf(m)'.beat]
             /\ bridge'[m].st \in ReadStates => ~EngineOf(m)'.write
             /\ bridge'[m].st \in {"WRITE_DATA", "WRITE_RESP"} => Serves(m, "WRITE")'
             /\ bridge'[m].st = "READ_DATA" => Serves(m, "READ")'
  <2> DEFINE b == bridge[m]
             c == bridge'[m]
             e == EngineOf(m)
             f == EngineOf(m)'
  <2>1. /\ c = BridgeNext(m, e) /\ e \in Engine /\ Ack(m) \in BOOLEAN
        /\ b \in [st : BridgeStates, word : Words, val : WordValues]
    BY <1>1 DEF TypeOK, FabricTypeOK
  <2>2. /\ b.st # "IDLE" => e.st = "REQ" /\ b.word = EngineWord(e)
        /\ b.st \in WriteStates => e.write /\ b.val = e.data[e.beat]
        /\ b.st \in ReadStates => ~e.write
        /\ b.st \in {"WRITE_DATA", "WRITE_RESP"} => Serves(m, "WRITE")
        /\ b.st = "READ_DATA" => Serves(m, "READ")
    BY DEF BridgeInv
  <2>3. e.st = "REQ" /\ b.st # "ACK" => f = e
    <3>1. PICK start : f = EngineNext(e, start, Ack(m), b.val)
      BY <1>1
    <3> HIDE DEF b, e, f
    <3>2. e.st = "REQ" /\ ~Ack(m) => f = e
      BY <2>1, <3>1 DEF EngineNext
    <3> QED
      BY <3>2 DEF Ack, b
  <2>4. Serves(m, "WRITE") /\ xbar' = xbar => Serves(m, "WRITE")'
    BY DEF Serves
  <2>5. Serves(m, "READ") /\ xbar' = xbar => Serves(m, "READ")'
    BY DEF Serves
  <2>6. xbar' = XbarNext
    BY DEF FabricClock
  <2>7. /\ b.st \in {"WRITE_DATA", "WRITE_RESP", "READ_DATA"}
        /\ ~WriteAnswered(m) /\ ~DataRead(m)
        => xbar' = xbar
    BY <2>6, XbarMoves
  <2>8. /\ AddrWritten(m) => Serves(m, "WRITE")' /\ b.st = "WRITE_ADDR"
        /\ AddrRead(m) => Serves(m, "READ")' /\ b.st = "READ_ADDR"
        /\ DataWritten(m) => b.st = "WRITE_DATA"
        /\ WriteAnswered(m) => b.st = "WRITE_RESP"
        /\ DataRead(m) => b.st = "READ_DATA"
    BY <2>6, XbarMoves
       DEF Serves, AddrWritten, AddrRead, DataWritten, WriteAnswered, DataRead
  <2>9. \/ /\ b.st = "IDLE" /\ e.st = "REQ" /\ c.word = EngineWord(e)
           /\ IF e.write THEN c.st = "WRITE_ADDR" /\ c.val = e.data[e.beat]
              ELSE c.st = "READ_ADDR"
        \/ b.st = "IDLE" /\ c.st = "IDLE"
        \/ /\ AddrWritten(m) /\ c.st = "WRITE_DATA" /\ c.word = b.word /\ c.val = b.val
        \/ /\ DataWritten(m) /\ c.st = "WRITE_RESP" /\ c.word = b.word /\ c.val = b.val
           /\ ~WriteAnswered(m) /\ ~DataRead(m)
        \/ WriteAnswered(m) /\ c.st = "ACK" /\ c.word = b.word
        \/ AddrRead(m) /\ c.st = "READ_DATA" /\ c.word = b.word
        \/ DataRead(m) /\ c.st = "ACK" /\ c.word = b.word
        \/ b.st = "ACK" /\ c.st = "IDLE"
        \/ /\ b.st \notin {"IDLE", "ACK"} /\ c = b
           /\ ~WriteAnswered(m) /\ ~DataRead(m)
    BY <2>8, BridgeMoves DEF Goes
  <2> HIDE DEF b, c, e, f
  <2>11. /\ c.st # "IDLE" => f.st = "REQ" /\ c.word = EngineWord(f)
         /\ c.st \in WriteStates => f.write /\ c.val = f.data[f.beat]
         /\ c.st \in ReadStates => ~f.write
         /\ c.st \in {"WRITE_DATA", "WRITE_RESP"} => Serves(m, "WRITE")'
         /\ c.st = "READ_DATA" => Serves(m, "READ")'
    BY <2>1, <2>2, <2>3, <2>4, <2>5, <2>7, <2>8, <2>9
       DEF WriteStates, ReadStates, BridgeStates
  <2> QED
    BY <2>11 DEF b, c, e, f
<1> QED
  BY <1>2, <1>3 DEF BridgeInv, EngineOf

(* The words that the data cache's engine has moved are the same in memory *)
(* and in its line, and a word that is on its way is the one of memory.    *)
MovedInv ==
  /\ dEngine.st # "IDLE" =>
       \A b \in Beats : b < dEngine.beat \/ dEngine.st = "DONE" =>
         dEngine.data[b] = sram[<<dEngine.base, b>>]
  /\ bridge["D"].st = "WRITE_RESP" => sram[bridge["D"].word] = bridge["D"].val
  /\ bridge["D"].st = "READ_DATA" => sram[bridge["D"].word] = sramPort.val
  /\ bridge["D"].st = "ACK" =>
       sram[bridge["D"].word] = IF dEngine.write THEN dEngine.data[dEngine.beat]
                                ELSE bridge["D"].val

(* Only the data cache writes to memory.                                   *)
LEMMA SramChange ==
  ASSUME TypeOK, BridgeInv, FabricClock(dEngine, iEngine)
  PROVE  /\ DataWritten("D") =>
              sram' = [sram EXCEPT ![bridge["D"].word] = bridge["D"].val]
         /\ ~DataWritten("D") => sram' = sram
<1>1. ~DataWritten("I")
  BY DEF DataWritten, BridgeInv, Masters, WriteStates, EngineOf
<1>2. xbar.owner \in {"D", "I"}
  BY DEF TypeOK, FabricTypeOK, Masters
<1>3. DataWritten("D") => xbar.owner = "D"
  BY DEF DataWritten, Serves
<1> QED
  BY <1>1, <1>2, <1>3 DEF FabricClock, SramClock

(* The word that the SRAM hands to a bridge.                               *)
LEMMA PortMoves ==
  ASSUME TypeOK, FabricClock(dEngine, iEngine), NEW m \in Masters
  PROVE  /\ AddrRead(m) => sramPort'.val = sram[bridge[m].word]
         /\ Serves(m, "READ") /\ ~DataRead(m) => sramPort' = sramPort
<1>1. sramPort \in [wr : BOOLEAN, b : BOOLEAN, rd : BOOLEAN, val : WordValues]
  BY DEF TypeOK, FabricTypeOK
<1>2. SramClock
  BY DEF FabricClock
<1>3. AddrRead(m) => sramPort'.val = sram[bridge[m].word]
  <2> HAVE AddrRead(m)
  <2>1. /\ xbar.owner = m /\ ~AddrWritten(m) /\ ~DataWritten(m)
        /\ ~WriteAnswered(m) /\ ~DataRead(m)
    BY DEF AddrRead, AddrWritten, DataWritten, WriteAnswered, DataRead, Serves
  <2>2. sramPort' = [sramPort EXCEPT !.rd = TRUE, !.val = sram[bridge[m].word]]
    BY <1>2, <2>1 DEF SramClock
  <2> QED
    BY <1>1, <2>2
<1>4. Serves(m, "READ") /\ ~DataRead(m) => sramPort' = sramPort
  <2> HAVE Serves(m, "READ") /\ ~DataRead(m)
  <2>1. /\ xbar.owner = m /\ ~AddrWritten(m) /\ ~DataWritten(m)
        /\ ~AddrRead(m) /\ ~WriteAnswered(m) /\ ~DataRead(m)
    BY DEF AddrRead, AddrWritten, DataWritten, WriteAnswered, Serves
  <2> QED
    BY <1>2, <2>1 DEF SramClock
<1> QED
  BY <1>3, <1>4

(* A cycle preserves MovedInv.                                             *)
LEMMA MovedStep ==
  ASSUME TypeOK, BridgeInv, MovedInv, FabricClock(dEngine, iEngine),
         dEngine' = EngineNext(dEngine, DStart, Ack("D"), bridge["D"].val)
  PROVE  MovedInv'
<1> DEFINE b == bridge["D"]
           c == bridge'["D"]
           e == dEngine
           f == dEngine'
<1>1. /\ e \in Engine
      /\ b \in [st : BridgeStates, word : Words, val : WordValues]
      /\ sram \in [Words -> WordValues]
      /\ "D" \in Masters
  BY FieldTypes DEF TypeOK, FabricTypeOK, Masters
<1>2. /\ b.st # "IDLE" => e.st = "REQ" /\ b.word = <<e.base, e.beat>>
      /\ b.st \in WriteStates => e.write /\ b.val = e.data[e.beat]
      /\ b.st \in ReadStates => ~e.write
      /\ b.st = "READ_DATA" => Serves("D", "READ")
  BY <1>1 DEF BridgeInv, EngineOf, EngineWord
<1>3. /\ DataWritten("D") => b.st = "WRITE_DATA" /\ sram' = [sram EXCEPT ![b.word] = b.val]
      /\ ~DataWritten("D") => sram' = sram
  BY SramChange DEF DataWritten
<1>4. \/ b.st = "IDLE" /\ c.st \in {"IDLE", "WRITE_ADDR", "READ_ADDR"}
      \/ c.st = "WRITE_DATA"
      \/ DataWritten("D") /\ c.st = "WRITE_RESP" /\ c.word = b.word /\ c.val = b.val
      \/ WriteAnswered("D") /\ c.st = "ACK" /\ c.word = b.word
      \/ AddrRead("D") /\ c.st = "READ_DATA" /\ c.word = b.word
      \/ DataRead("D") /\ c.st = "ACK" /\ c.word = b.word /\ c.val = sramPort.val
      \/ b.st = "ACK" /\ c.st = "IDLE"
      \/ /\ b.st \notin {"IDLE", "ACK"} /\ c = b
         /\ ~DataWritten("D") /\ ~DataRead("D") /\ ~WriteAnswered("D")
  BY <1>1, BridgeMoves DEF Goes
<1>5. /\ AddrWritten("D") => b.st = "WRITE_ADDR"
      /\ DataWritten("D") => b.st = "WRITE_DATA"
      /\ WriteAnswered("D") => b.st = "WRITE_RESP"
      /\ AddrRead("D") => b.st = "READ_ADDR"
      /\ DataRead("D") => b.st = "READ_DATA"
  BY DEF AddrWritten, WriteAnswered, AddrRead, DataRead, DataWritten
<1>6. /\ b.st = "WRITE_RESP" => sram[b.word] = b.val
      /\ b.st = "READ_DATA" => sram[b.word] = sramPort.val
      /\ b.st = "ACK" => sram[b.word] = IF e.write THEN e.data[e.beat] ELSE b.val
  BY DEF MovedInv
<1>7. /\ AddrRead("D") => sramPort'.val = sram[b.word]
      /\ Serves("D", "READ") /\ ~DataRead("D") => sramPort' = sramPort
  BY <1>1, PortMoves
<1>8. f = EngineNext(e, DStart, Ack("D"), b.val)
  OBVIOUS
<1>9. ASSUME c.st = "WRITE_RESP"
       PROVE  sram'[c.word] = c.val
  <2> HIDE DEF b, c, e, f
  <2>1. \/ DataWritten("D") /\ c.word = b.word /\ c.val = b.val
        \/ c = b /\ ~DataWritten("D")
    BY <1>1, <1>4, <1>9
  <2>2. CASE DataWritten("D") /\ c.word = b.word /\ c.val = b.val
    <3>1. b.word \in Words
      BY <1>1
    <3> QED
      BY <1>1, <1>3, <2>2, <3>1
  <2>3. CASE c = b /\ ~DataWritten("D")
    <3>1. sram' = sram
      BY <1>3, <2>3
    <3> QED
      BY <1>6, <1>9, <2>3, <3>1
  <2> QED
    BY <2>1, <2>2, <2>3
<1>10. ASSUME c.st = "READ_DATA"
       PROVE  sram'[c.word] = sramPort'.val
  <2> HIDE DEF b, c, e, f
  <2>1. \/ AddrRead("D") /\ c.word = b.word /\ ~DataWritten("D")
        \/ c = b /\ ~DataWritten("D") /\ ~DataRead("D")
    BY <1>1, <1>4, <1>5, <1>10
  <2>2. sram' = sram
    BY <1>3, <2>1
  <2>3. CASE AddrRead("D") /\ c.word = b.word
    BY <1>7, <2>2, <2>3
  <2>4. CASE c = b /\ ~DataRead("D")
    <3>1. sramPort' = sramPort /\ sram[b.word] = sramPort.val
      BY <1>2, <1>6, <1>7, <1>10, <2>4
    <3> QED
      BY <2>2, <2>4, <3>1
  <2> QED
    BY <2>1, <2>3, <2>4
<1>11. ASSUME c.st = "ACK"
      PROVE  sram'[c.word] = IF f.write THEN f.data[f.beat] ELSE c.val
  <2>1. b.st \in {"WRITE_RESP", "READ_DATA"} /\ c.word = b.word
        /\ (b.st = "READ_DATA" => c.val = sramPort.val)
    <3> HIDE DEF b, c, e, f
    <3> QED
      BY <1>1, <1>4, <1>5, <1>11
  <2>2. e.st = "REQ" /\ ~Ack("D")
    BY <1>2, <2>1 DEF Ack
  <2>3. f = e
    BY <1>8, <2>2 DEF EngineNext
  <2> HIDE DEF b, c, e, f
  <2>4. ~DataWritten("D")
    BY <1>5, <2>1
  <2>5. sram'[c.word] = sram[b.word]
    BY <1>3, <2>1, <2>4
  <2>6. CASE b.st = "WRITE_RESP"
    BY <1>2, <1>6, <2>3, <2>5, <2>6 DEF WriteStates
  <2>7. CASE b.st = "READ_DATA"
    BY <1>2, <1>6, <2>1, <2>3, <2>5, <2>7 DEF ReadStates
  <2> QED
    BY <2>1, <2>6, <2>7
<1>12. ASSUME f.st # "IDLE", NEW x \in Beats, x < f.beat \/ f.st = "DONE"
       PROVE  f.data[x] = sram'[<<f.base, x>>]
  <2>0. x \in Nat /\ e.beat \in Nat /\ x <= WORDS_PER_LINE - 1 /\ e.base \in Lines
        /\ e.data \in LineData /\ WORDS_PER_LINE \in Nat
    BY <1>1, FabricAssumption DEF Beats, Engine
  <2>1. CASE e.st = "IDLE"
    <3>1. f.st = "REQ" /\ f.beat = 0
      BY <1>8, <1>12, <2>1, StartFacts DEF EngineNext
    <3> QED
      BY <1>12, <2>0, <3>1
  <2>2. CASE e.st = "REQ" /\ ~Ack("D")
    <3>1. f = e
      BY <1>8, <2>2 DEF EngineNext
    <3>2. x < e.beat /\ e.data[x] = sram[<<e.base, x>>]
      BY <1>12, <2>2, <3>1 DEF MovedInv
    <3>3. <<e.base, x>> # <<e.base, e.beat>>
      BY <2>0, <3>2
    <3>4. sram'[<<e.base, x>>] = sram[<<e.base, x>>]
      BY <1>1, <1>2, <1>3, <3>3, <2>0 DEF Words
    <3> QED
      BY <3>1, <3>2, <3>4
  <2>3. CASE e.st = "REQ" /\ Ack("D")
    <3>1. b.st = "ACK" /\ sram' = sram /\ b.word = <<e.base, e.beat>>
      BY <1>2, <1>3, <2>3 DEF Ack
    <3> DEFINE got == IF e.write THEN e.data ELSE [e.data EXCEPT ![e.beat] = b.val]
    <3>2. f = IF e.beat = WORDS_PER_LINE - 1 THEN [e EXCEPT !.st = "DONE", !.data = got]
              ELSE [e EXCEPT !.beat = @ + 1, !.data = got]
      BY <1>8, <2>3 DEF EngineNext
    <3>3. /\ x # e.beat => got[x] = e.data[x]
          /\ got[e.beat] = IF e.write THEN e.data[e.beat] ELSE b.val
      BY <1>1, <2>0 DEF Engine, LineData
    <3> HIDE DEF got
    <3>4. f.data = got /\ f.base = e.base /\ (f.st = "DONE" => e.beat = WORDS_PER_LINE - 1)
          /\ (f.st # "DONE" => f.beat = e.beat + 1)
      BY <1>1, <2>3, <3>2 DEF Engine
    <3>5. x < e.beat \/ x = e.beat
      BY <1>12, <2>0, <3>4
    <3>6. x < e.beat => e.data[x] = sram[<<e.base, x>>]
      BY <2>3 DEF MovedInv
    <3>7. sram[<<e.base, e.beat>>] = IF e.write THEN e.data[e.beat] ELSE b.val
      BY <3>1 DEF MovedInv
    <3> QED
      BY <2>0, <3>1, <3>3, <3>4, <3>5, <3>6, <3>7
  <2>4. CASE e.st = "DONE"
    <3>1. f = [e EXCEPT !.st = "IDLE"]
      BY <1>8, <2>4 DEF EngineNext
    <3> QED
      BY <1>1, <1>12, <3>1 DEF Engine
  <2> QED
    BY <1>1, <2>1, <2>2, <2>3, <2>4 DEF Engine
<1> QED
  BY <1>11, <1>12, <1>9, <1>10 DEF MovedInv

-----------------------------------------------------------------------------
(* The lines of the data cache.  Memory has the data of a line.            *)
SameData(line, data) == \A b \in Beats : data[b] = sram[<<line, b>>]

(* The engine of the data cache moves the line that the state is about,    *)
(* and a line that was read is the one of memory.                          *)
EngineInv ==
  /\ dState \in {"IDLE", "FLUSH_SCAN", "MISS_FINISH"} => dEngine.st = "IDLE"
  /\ dState = "FLUSH_WB" =>
       /\ dEngine.st # "IDLE" /\ dEngine.write
       /\ dEngine.base = WalkLine.line /\ dEngine.data = WalkLine.data
  /\ dState = "MISS_WB" /\ dEngine.st # "IDLE" =>
       /\ dEngine.write
       /\ dEngine.base = dMshr.victim.line /\ dEngine.data = dMshr.victim.data
  /\ dState = "MISS_FILL" /\ dEngine.st # "IDLE" =>
       ~dEngine.write /\ dEngine.base = LookupLine
  /\ dState = "MISS_FINISH" => SameData(LookupLine, dEngine.data)

(* How the engine moves.                                                   *)
LEMMA EngineMoves ==
  ASSUME TypeOK, dEngine' = EngineNext(dEngine, DStart, Ack("D"), bridge["D"].val)
  PROVE  /\ dEngine.st = "IDLE" => dEngine' = DStart
         /\ dEngine.st = "REQ" => /\ dEngine'.st \in {"REQ", "DONE"}
                                  /\ dEngine'.write = dEngine.write
                                  /\ dEngine'.base = dEngine.base
                                  /\ dEngine.write => dEngine'.data = dEngine.data
         /\ dEngine.st = "DONE" => /\ dEngine'.st = "IDLE"
                                   /\ dEngine'.data = dEngine.data
<1>1. dEngine \in Engine
  BY FieldTypes
<1>2. CASE dEngine.st = "IDLE"
  BY <1>2 DEF EngineNext
<1>3. CASE dEngine.st = "DONE"
  <2>1. dEngine' = [dEngine EXCEPT !.st = "IDLE"]
    BY <1>3 DEF EngineNext
  <2> QED
    BY <1>1, <1>3, <2>1 DEF Engine
<1>4. CASE dEngine.st = "REQ" /\ Ack("D")
  <2> DEFINE got == IF dEngine.write THEN dEngine.data
                    ELSE [dEngine.data EXCEPT ![dEngine.beat] = bridge["D"].val]
  <2>1. dEngine' = IF dEngine.beat = WORDS_PER_LINE - 1
                     THEN [dEngine EXCEPT !.st = "DONE", !.data = got]
                   ELSE [dEngine EXCEPT !.beat = @ + 1, !.data = got]
    BY <1>4 DEF EngineNext
  <2>2. dEngine.write => got = dEngine.data
    OBVIOUS
  <2> HIDE DEF got
  <2> QED
    BY <1>1, <1>4, <2>1, <2>2 DEF Engine
<1>5. CASE dEngine.st = "REQ" /\ ~Ack("D")
  <2>1. dEngine' = dEngine
    BY <1>5 DEF EngineNext
  <2> QED
    BY <1>5, <2>1
<1> QED
  BY <1>1, <1>2, <1>3, <1>4, <1>5 DEF Engine

(* What starts it.                                                         *)
LEMMA StartOf ==
  /\ dState = "MISS_WB" /\ EngineFree =>
       /\ DStart.write
       /\ DStart.base = dMshr.victim.line /\ DStart.data = dMshr.victim.data
  /\ dState = "MISS_FILL" /\ EngineFree => ~DStart.write /\ DStart.base = LookupLine
  /\ dState = "FLUSH_SCAN" /\ WalkDirty =>
       /\ DStart.st # "IDLE" /\ DStart.write
       /\ DStart.base = WalkLine.line /\ DStart.data = WalkLine.data
  /\ dState \in {"IDLE", "MISS_FINISH"} \/ (dState = "FLUSH_SCAN" /\ ~WalkDirty) =>
       DStart.st = "IDLE"
  BY DEF DStart, StartRead, StartWrite, NoEngine

(* Memory changes only in a line that the engine writes.                   *)
LEMMA SramKeeps ==
  ASSUME TypeOK, BridgeInv, FabricClock(dEngine, iEngine), NEW n \in Lines,
         ~(dEngine.st = "REQ" /\ dEngine.write /\ dEngine.base = n)
  PROVE  \A b \in Beats : sram'[<<n, b>>] = sram[<<n, b>>]
<1>1. /\ sram \in [Words -> WordValues] /\ dEngine \in Engine
      /\ bridge["D"].word \in Words
  BY FieldTypes DEF TypeOK, FabricTypeOK, Masters
<1>2. CASE DataWritten("D")
  <2>1. /\ dEngine.st = "REQ" /\ dEngine.write
        /\ bridge["D"].word = <<dEngine.base, dEngine.beat>>
    BY <1>2 DEF BridgeInv, DataWritten, EngineOf, EngineWord, WriteStates, Masters
  <2>2. dEngine.base # n
    BY <2>1
  <2>3. sram' = [sram EXCEPT ![bridge["D"].word] = bridge["D"].val]
    BY <1>2, SramChange
  <2> QED
    BY <1>1, <2>1, <2>2, <2>3 DEF Words
<1>3. CASE ~DataWritten("D")
  BY <1>3, SramChange
<1> QED
  BY <1>2, <1>3

(* A cycle preserves EngineInv.                                            *)
LEMMA EngineStep ==
  ASSUME TypeOK, BridgeInv, MovedInv, EngineInv, NEW access, NEW plru,
         FabricClock(dEngine, iEngine), DClock(access, plru, FlushReq)
  PROVE  EngineInv'
<1>1. /\ dEngine.st \in {"IDLE", "REQ", "DONE"} /\ dEngine.data \in LineData
      /\ LookupLine \in Lines
  BY FieldTypes DEF Engine
<1>2. /\ dEngine.st = "IDLE" => dEngine' = DStart
      /\ dEngine.st = "REQ" => /\ dEngine'.st \in {"REQ", "DONE"}
                               /\ dEngine'.write = dEngine.write
                               /\ dEngine'.base = dEngine.base
                               /\ dEngine.write => dEngine'.data = dEngine.data
      /\ dEngine.st = "DONE" => /\ dEngine'.st = "IDLE"
                                /\ dEngine'.data = dEngine.data
  BY EngineMoves DEF DClock
<1>3. CASE dState = "IDLE"
  <2>1. dEngine'.st = "IDLE" /\ dState' \in {"IDLE", "MISS_WB", "MISS_FILL", "FLUSH_SCAN"}
    <3>1. DStart.st = "IDLE" /\ dEngine.st = "IDLE"
      BY <1>3, StartOf DEF EngineInv
    <3>2. \/ DAccept(access)
          \/ DResolveHit(access)
          \/ DResolveMiss(access, plru)
          \/ DStartWalk(access, FlushReq)
          \/ DRest(access, FlushReq)
      BY <1>3
         DEF DClock, DMissWriteBack, DMissFill, DMissFinish, DFlushScan, DFlushWriteBack
    <3> QED
      BY <1>2, <1>3, <3>1, <3>2
         DEF DAccept, DResolveHit, DResolveMiss, DStartWalk, DRest
  <2> QED
    BY <2>1 DEF EngineInv
<1>4. CASE dState = "MISS_WB"
  <2>1. DMissWriteBack
    BY <1>4 DEF DClock, DMissFill, DMissFinish, DFlushScan, DFlushWriteBack,
       DAccept, DResolveHit, DResolveMiss, DStartWalk, DRest
  <2>2. dMshr' = dMshr /\ dState' = IF dEngine.st = "DONE" THEN "MISS_FILL" ELSE "MISS_WB"
    BY <1>4, <2>1 DEF DMissWriteBack, EngineDone
  <2>3. CASE dEngine.st = "IDLE"
    BY <1>2, <1>4, <2>2, <2>3, StartOf DEF EngineInv, EngineFree
  <2>4. CASE dEngine.st = "REQ"
    BY <1>2, <1>4, <2>2, <2>4 DEF EngineInv
  <2>5. CASE dEngine.st = "DONE"
    BY <1>2, <1>4, <2>2, <2>5 DEF EngineInv
  <2> QED
    BY <1>1, <2>3, <2>4, <2>5
<1>5. CASE dState = "MISS_FILL"
  <2>1. DMissFill
    BY <1>5 DEF DClock, DMissWriteBack, DMissFinish, DFlushScan, DFlushWriteBack,
       DAccept, DResolveHit, DResolveMiss, DStartWalk, DRest
  <2>2. /\ LookupLine' = LookupLine
        /\ dState' = IF dEngine.st = "DONE" THEN "MISS_FINISH" ELSE "MISS_FILL"
    BY <1>5, <2>1 DEF DMissFill, EngineDone, LookupLine
  <2>3. CASE dEngine.st = "IDLE"
    BY <1>2, <1>5, <2>2, <2>3, StartOf DEF EngineInv, EngineFree
  <2>4. CASE dEngine.st = "REQ"
    BY <1>2, <1>5, <2>2, <2>4 DEF EngineInv
  <2>5. CASE dEngine.st = "DONE"
    <3>1. \A b \in Beats : dEngine.data[b] = sram[<<LookupLine, b>>]
      BY <1>5, <2>5 DEF EngineInv, MovedInv
    <3>2. \A b \in Beats : sram'[<<LookupLine, b>>] = sram[<<LookupLine, b>>]
      BY <1>1, <2>5, SramKeeps
    <3>3. SameData(LookupLine, dEngine.data)'
      BY <1>2, <2>2, <2>5, <3>1, <3>2 DEF SameData
    <3> QED
      BY <1>2, <2>2, <2>5, <3>3 DEF EngineInv
  <2> QED
    BY <1>1, <2>3, <2>4, <2>5
<1>6. CASE dState = "MISS_FINISH"
  <2>1. DMissFinish
    BY <1>6 DEF DClock, DMissWriteBack, DMissFill, DFlushScan, DFlushWriteBack,
       DAccept, DResolveHit, DResolveMiss, DStartWalk, DRest
  <2>2. dState' = "IDLE" /\ DStart.st = "IDLE" /\ dEngine.st = "IDLE"
    BY <1>6, <2>1, StartOf DEF DMissFinish, EngineInv
  <2> QED
    BY <1>2, <2>2 DEF EngineInv
<1>7. CASE dState = "FLUSH_SCAN"
  <2>1. DFlushScan /\ dEngine.st = "IDLE"
    BY <1>7 DEF DClock, DMissWriteBack, DMissFill, DMissFinish, DFlushWriteBack,
       DAccept, DResolveHit, DResolveMiss, DStartWalk, DRest, EngineInv
  <2>2. CASE WalkDirty
    <3>1. dState' = "FLUSH_WB" /\ WalkLine' = WalkLine
      BY <2>1, <2>2 DEF DFlushScan, WalkLine, LineAt
    <3> QED
      BY <1>2, <1>7, <2>1, <2>2, <3>1, StartOf DEF EngineInv
  <2>3. CASE ~WalkDirty
    <3>1. dState' \in {"IDLE", "FLUSH_SCAN"}
      BY <2>1, <2>3 DEF DFlushScan, DWalkOn
    <3>2. DStart.st = "IDLE"
      BY <1>7, <2>3, StartOf
    <3> QED
      BY <1>2, <2>1, <3>1, <3>2 DEF EngineInv
  <2> QED
    BY <2>2, <2>3
<1>8. CASE dState = "FLUSH_WB"
  <2>1. DFlushWriteBack
    BY <1>8 DEF DClock, DMissWriteBack, DMissFill, DMissFinish, DFlushScan,
       DAccept, DResolveHit, DResolveMiss, DStartWalk, DRest
  <2>2. CASE dEngine.st = "DONE"
    <3>1. dState' \in {"IDLE", "FLUSH_SCAN"}
      BY <2>1, <2>2 DEF DFlushWriteBack, DWalkOn, EngineDone
    <3> QED
      BY <1>2, <2>2, <3>1 DEF EngineInv
  <2>3. CASE dEngine.st = "REQ"
    <3>1. dState' = "FLUSH_WB" /\ WalkLine' = WalkLine
      BY <1>8, <2>1, <2>3 DEF DFlushWriteBack, EngineDone, WalkLine, LineAt
    <3> QED
      BY <1>2, <1>8, <2>3, <3>1 DEF EngineInv
  <2>4. dEngine.st # "IDLE"
    BY <1>8 DEF EngineInv
  <2> QED
    BY <1>1, <2>2, <2>3, <2>4
<1> QED
  BY <1>3, <1>4, <1>5, <1>6, <1>7, <1>8 DEF TypeOK, DTypeOK, DStates

(* A valid line is in its set, in one way only, and equal to memory unless *)
(* it is dirty.                                                            *)
LineInv ==
  /\ \A s \in Sets, w \in Ways : LineAt(s, w).valid => SetOf(LineAt(s, w).line) = s
  /\ \A s \in Sets, v, w \in Ways :
       LineAt(s, v).valid /\ LineAt(s, w).valid /\ LineAt(s, v).line = LineAt(s, w).line
         => v = w
  /\ \A s \in Sets, w \in Ways :
       LineAt(s, w).valid /\ ~LineAt(s, w).dirty =>
         SameData(LineAt(s, w).line, LineAt(s, w).data)

(* A miss: the line it looks for is not in the cache, and its victim, once *)
(* written back, is in memory.                                             *)
MissInv ==
  /\ dMshr.busy => HitWays = {} /\ dMshr.victim = LineAt(LookupSet, dMshr.way)
  /\ dState = "MISS_WB" => dMshr.victim.valid /\ dMshr.victim.dirty
  /\ dState = "FLUSH_WB" => WalkDirty
  /\ dState \in {"MISS_FILL", "MISS_FINISH"} /\ dMshr.victim.valid =>
       SameData(dMshr.victim.line, dMshr.victim.data)

(* Memory changes only in a line that is dirty in the cache.               *)
LEMMA CleanKeeps ==
  ASSUME TypeOK, ControlInv, BridgeInv, EngineInv, MissInv,
         FabricClock(dEngine, iEngine), NEW n \in Lines,
         \A s \in Sets, w \in Ways : Dirty(s, w) => LineAt(s, w).line # n
  PROVE  \A b \in Beats : sram'[<<n, b>>] = sram[<<n, b>>]
<1>1. ASSUME dEngine.st = "REQ", dEngine.write
      PROVE  \E s \in Sets, w \in Ways : Dirty(s, w) /\ LineAt(s, w).line = dEngine.base
  <2>1. dState \in {"MISS_WB", "FLUSH_WB"}
    BY <1>1 DEF EngineInv, TypeOK, DTypeOK, DStates
  <2>2. CASE dState = "MISS_WB"
    BY <1>1, <2>2, FieldTypes DEF EngineInv, MissInv, ControlInv, MissStates, Dirty
  <2>3. CASE dState = "FLUSH_WB"
    BY <1>1, <2>3, FieldTypes DEF EngineInv, MissInv, WalkDirty, WalkLine, Dirty
  <2> QED
    BY <2>1, <2>2, <2>3
<1>2. ~(dEngine.st = "REQ" /\ dEngine.write /\ dEngine.base = n)
  BY <1>1
<1> QED
  BY <1>2, SramKeeps

(* How the lines change.                                                   *)
LEMMA LinesStay ==
  ASSUME NEW access, NEW plru, DClock(access, plru, FlushReq),
         ~(DResolveHit(access) /\ dReq.op = "WRITE"), dState # "MISS_FINISH",
         ~(dState = "FLUSH_WB" /\ EngineDone)
  PROVE  dLines' = dLines
  BY DEF DClock, DAccept, DResolveHit, DResolveMiss, DStartWalk, DRest, DMissWriteBack,
     DMissFill, DMissFinish, DFlushScan, DFlushWriteBack

(* A store that hits changes its line and makes it dirty.                  *)
LEMMA HitLines ==
  ASSUME TypeOK, NEW access, DResolveHit(access), dReq.op = "WRITE"
  PROVE  /\ Min(HitWays) \in Ways
         /\ LineAt(LookupSet, Min(HitWays)).valid
         /\ LineAt(LookupSet, Min(HitWays)).line = LookupLine
         /\ \A s \in Sets, w \in Ways :
              IF s = LookupSet /\ w = Min(HitWays)
                THEN /\ LineAt(s, w)'.valid = LineAt(s, w).valid
                     /\ LineAt(s, w)'.line = LineAt(s, w).line
                     /\ LineAt(s, w)'.dirty
                     /\ LineAt(s, w)'.data = Merged(LineAt(s, w).data)
              ELSE LineAt(s, w)' = LineAt(s, w)
<1> DEFINE h == Min(HitWays)
           data == Merged(LineAt(LookupSet, h).data)
<1>1. h \in HitWays /\ h \in Ways
  BY WayTypes DEF DResolveHit, DHit
<1>2. LineAt(LookupSet, h).valid /\ LineAt(LookupSet, h).line = LookupLine
  BY <1>1 DEF HitWays
<1>3. dLines' = [dLines EXCEPT ![<<LookupSet, h>>].data = data,
                               ![<<LookupSet, h>>].dirty = TRUE]
  BY DEF DResolveHit
<1>4. dLines \in [Sets \X Ways -> Line] /\ LookupSet \in Sets
  BY FieldTypes DEF TypeOK, DTypeOK
<1> HIDE DEF h, data
<1>5. ASSUME NEW s \in Sets, NEW w \in Ways, ~(s = LookupSet /\ w = h)
      PROVE  LineAt(s, w)' = LineAt(s, w)
  <2>1. <<s, w>> # <<LookupSet, h>>
    BY <1>5
  <2> QED
    BY <1>3, <1>4, <2>1 DEF LineAt
<1>6. /\ dLines'[<<LookupSet, h>>].valid = LineAt(LookupSet, h).valid
      /\ dLines'[<<LookupSet, h>>].line = LineAt(LookupSet, h).line
      /\ dLines'[<<LookupSet, h>>].dirty
      /\ dLines'[<<LookupSet, h>>].data = data
  <2>1. dLines[<<LookupSet, h>>] \in Line
    BY <1>1, <1>4
  <2>2. dLines'[<<LookupSet, h>>] =
          [dLines[<<LookupSet, h>>] EXCEPT !.data = data, !.dirty = TRUE]
    BY <1>1, <1>3, <1>4
  <2> QED
    BY <2>1, <2>2 DEF LineAt, Line
<1>7. ASSUME NEW s \in Sets, NEW w \in Ways
      PROVE  IF s = LookupSet /\ w = h
               THEN /\ LineAt(s, w)'.valid = LineAt(s, w).valid
                    /\ LineAt(s, w)'.line = LineAt(s, w).line
                    /\ LineAt(s, w)'.dirty
                    /\ LineAt(s, w)'.data = Merged(LineAt(s, w).data)
             ELSE LineAt(s, w)' = LineAt(s, w)
  BY <1>5, <1>6 DEF data, LineAt
<1> QED
  BY <1>1, <1>2, <1>7 DEF h

(* A miss ends with the line it looked for in the way of its victim.       *)
LEMMA FillLines ==
  ASSUME TypeOK, DMissFinish
  PROVE  \A s \in Sets, w \in Ways :
           IF s = LookupSet /\ w = dMshr.way
             THEN /\ LineAt(s, w)'.valid
                  /\ LineAt(s, w)'.line = LookupLine
                  /\ (LineAt(s, w)'.dirty <=> dReq.op = "WRITE")
                  /\ LineAt(s, w)'.data = Merged(dEngine.data)
           ELSE LineAt(s, w)' = LineAt(s, w)
<1>1. dLines \in [Sets \X Ways -> Line] /\ LookupSet \in Sets /\ dMshr.way \in Ways
  BY FieldTypes DEF TypeOK, DTypeOK
<1>2. dLines' = [dLines EXCEPT ![<<LookupSet, dMshr.way>>] =
                   [valid |-> TRUE, dirty |-> dReq.op = "WRITE",
                    line |-> LookupLine, data |-> Merged(dEngine.data)]]
  BY DEF DMissFinish
<1>3. ASSUME NEW s \in Sets, NEW w \in Ways, ~(s = LookupSet /\ w = dMshr.way)
      PROVE  LineAt(s, w)' = LineAt(s, w)
  <2>1. <<s, w>> # <<LookupSet, dMshr.way>>
    BY <1>3
  <2> QED
    BY <1>1, <1>2, <2>1 DEF LineAt
<1>4. dLines'[<<LookupSet, dMshr.way>>] =
        [valid |-> TRUE, dirty |-> dReq.op = "WRITE",
         line |-> LookupLine, data |-> Merged(dEngine.data)]
  BY <1>1, <1>2
<1>5. /\ dLines'[<<LookupSet, dMshr.way>>].valid
      /\ dLines'[<<LookupSet, dMshr.way>>].line = LookupLine
      /\ dLines'[<<LookupSet, dMshr.way>>].data = Merged(dEngine.data)
  BY <1>4
<1>6. dLines'[<<LookupSet, dMshr.way>>].dirty <=> dReq.op = "WRITE"
  <2>1. CASE dReq.op = "WRITE"
    <3>1. (dReq.op = "WRITE") = TRUE
      BY <2>1
    <3>2. dLines'[<<LookupSet, dMshr.way>>] =
            [valid |-> TRUE, dirty |-> TRUE, line |-> LookupLine,
             data |-> Merged(dEngine.data)]
      BY <1>4, <3>1, Zenon
    <3> QED
      BY <2>1, <3>2
  <2>2. CASE dReq.op # "WRITE"
    <3>1. (dReq.op = "WRITE") = FALSE
      BY <2>2
    <3>2. dLines'[<<LookupSet, dMshr.way>>] =
            [valid |-> TRUE, dirty |-> FALSE, line |-> LookupLine,
             data |-> Merged(dEngine.data)]
      BY <1>4, <3>1, Zenon
    <3> QED
      BY <2>2, <3>2
  <2> QED
    BY <2>1, <2>2
<1>7. ASSUME NEW s \in Sets, NEW w \in Ways, s = LookupSet, w = dMshr.way
      PROVE  /\ LineAt(s, w)'.valid
             /\ LineAt(s, w)'.line = LookupLine
             /\ (LineAt(s, w)'.dirty <=> dReq.op = "WRITE")
             /\ LineAt(s, w)'.data = Merged(dEngine.data)
  BY <1>5, <1>6, <1>7 DEF LineAt
<1> QED
  BY <1>3, <1>7

(* A line that the walk has written back is clean.                         *)
LEMMA CleanedLines ==
  ASSUME TypeOK, DFlushWriteBack, EngineDone
  PROVE  \A s \in Sets, w \in Ways :
           IF s = dWalk.set /\ w = dWalk.way
             THEN /\ LineAt(s, w)'.valid = LineAt(s, w).valid
                  /\ LineAt(s, w)'.line = LineAt(s, w).line
                  /\ ~LineAt(s, w)'.dirty
                  /\ LineAt(s, w)'.data = LineAt(s, w).data
           ELSE LineAt(s, w)' = LineAt(s, w)
<1>1. dLines \in [Sets \X Ways -> Line] /\ dWalk.set \in Sets /\ dWalk.way \in Ways
  BY FieldTypes DEF TypeOK, DTypeOK
<1>2. dLines' = [dLines EXCEPT ![<<dWalk.set, dWalk.way>>].dirty = FALSE]
  BY DEF DFlushWriteBack
<1>3. ASSUME NEW s \in Sets, NEW w \in Ways, ~(s = dWalk.set /\ w = dWalk.way)
      PROVE  LineAt(s, w)' = LineAt(s, w)
  <2>1. <<s, w>> # <<dWalk.set, dWalk.way>>
    BY <1>3
  <2> QED
    BY <1>1, <1>2, <2>1 DEF LineAt
<1>4. /\ dLines'[<<dWalk.set, dWalk.way>>].valid = dLines[<<dWalk.set, dWalk.way>>].valid
      /\ dLines'[<<dWalk.set, dWalk.way>>].line = dLines[<<dWalk.set, dWalk.way>>].line
      /\ ~dLines'[<<dWalk.set, dWalk.way>>].dirty
      /\ dLines'[<<dWalk.set, dWalk.way>>].data = dLines[<<dWalk.set, dWalk.way>>].data
  <2>1. dLines[<<dWalk.set, dWalk.way>>] \in Line
    BY <1>1
  <2>2. dLines'[<<dWalk.set, dWalk.way>>] =
          [dLines[<<dWalk.set, dWalk.way>>] EXCEPT !.dirty = FALSE]
    BY <1>1, <1>2
  <2> QED
    BY <2>1, <2>2 DEF Line
<1> QED
  BY <1>3, <1>4 DEF LineAt

(* A line of data that memory has it still has, unless the line is dirty   *)
(* in the cache.                                                           *)
LEMMA SameKept ==
  ASSUME TypeOK, ControlInv, BridgeInv, EngineInv, MissInv,
         FabricClock(dEngine, iEngine), NEW n \in Lines, NEW data,
         \A s \in Sets, w \in Ways : Dirty(s, w) => LineAt(s, w).line # n,
         SameData(n, data)
  PROVE  \A b \in Beats : data[b] = sram'[<<n, b>>]
<1>1. \A b \in Beats : sram'[<<n, b>>] = sram[<<n, b>>]
  BY CleanKeeps
<1> QED
  BY <1>1 DEF SameData

(* A valid line is in one place only.                                      *)
LEMMA OneWay ==
  ASSUME TypeOK, LineInv, NEW s \in Sets, NEW t \in Sets, NEW v \in Ways, NEW w \in Ways,
         LineAt(s, v).valid, LineAt(t, w).valid, LineAt(s, v).line = LineAt(t, w).line
  PROVE  s = t /\ v = w
  BY DEF LineInv

(* A cycle preserves LineInv.                                              *)
LEMMA LineStep ==
  ASSUME TypeOK, ControlInv, BridgeInv, MovedInv, EngineInv, LineInv, MissInv,
         NEW access, NEW plru,
         FabricClock(dEngine, iEngine), DClock(access, plru, FlushReq)
  PROVE  LineInv'
<1> DEFINE Kept(s, w) ==
             \A b \in Beats : LineAt(s, w).data[b] = sram'[<<LineAt(s, w).line, b>>]
<1>1. ASSUME NEW s \in Sets, NEW w \in Ways, LineAt(s, w).valid, ~LineAt(s, w).dirty
      PROVE  Kept(s, w)
  <2>1. SameData(LineAt(s, w).line, LineAt(s, w).data)
    BY <1>1 DEF LineInv
  <2>2. \A t \in Sets, v \in Ways : Dirty(t, v) => LineAt(t, v).line # LineAt(s, w).line
    BY <1>1, OneWay DEF Dirty
  <2>3. LineAt(s, w).line \in Lines
    BY FieldTypes DEF Line
  <2> QED
    BY <2>1, <2>2, <2>3, SameKept
<1>2. ASSUME \A s \in Sets, w \in Ways :
               /\ LineAt(s, w)'.valid = LineAt(s, w).valid
               /\ LineAt(s, w)'.line = LineAt(s, w).line,
             \A s \in Sets, w \in Ways :
               LineAt(s, w).valid /\ ~LineAt(s, w)'.dirty =>
                 LineAt(s, w)'.data = LineAt(s, w).data /\ Kept(s, w)
      PROVE  LineInv'
  <2>1. \A s \in Sets, w \in Ways : LineAt(s, w)'.valid => SetOf(LineAt(s, w)'.line) = s
    BY <1>2 DEF LineInv
  <2>2. \A s \in Sets, v, w \in Ways :
          /\ LineAt(s, v)'.valid /\ LineAt(s, w)'.valid
          /\ LineAt(s, v)'.line = LineAt(s, w)'.line
          => v = w
    BY <1>2 DEF LineInv
  <2>3. \A s \in Sets, w \in Ways :
          LineAt(s, w)'.valid /\ ~LineAt(s, w)'.dirty =>
            \A b \in Beats : LineAt(s, w)'.data[b] = sram'[<<LineAt(s, w)'.line, b>>]
    BY <1>2
  <2> QED
    BY <2>1, <2>2, <2>3 DEF LineInv, SameData
<1>3. CASE DResolveHit(access) /\ dReq.op = "WRITE"
  <2>1. \A s \in Sets, w \in Ways :
          IF s = LookupSet /\ w = Min(HitWays)
            THEN /\ LineAt(s, w)'.valid = LineAt(s, w).valid
                 /\ LineAt(s, w)'.line = LineAt(s, w).line
                 /\ LineAt(s, w)'.dirty
          ELSE LineAt(s, w)' = LineAt(s, w)
    BY <1>3, HitLines
  <2> HIDE DEF Kept
  <2> QED
    BY <1>1, <1>2, <2>1
<1>4. CASE dState = "FLUSH_WB" /\ EngineDone
  <2>1. DFlushWriteBack
    BY <1>4 DEF DClock, DAccept, DResolveHit, DResolveMiss, DStartWalk, DRest,
       DMissWriteBack, DMissFill, DMissFinish, DFlushScan
  <2>2. \A s \in Sets, w \in Ways :
          IF s = dWalk.set /\ w = dWalk.way
            THEN /\ LineAt(s, w)'.valid = LineAt(s, w).valid
                 /\ LineAt(s, w)'.line = LineAt(s, w).line
                 /\ LineAt(s, w)'.data = LineAt(s, w).data
          ELSE LineAt(s, w)' = LineAt(s, w)
    BY <1>4, <2>1, CleanedLines
  <2>3. Kept(dWalk.set, dWalk.way)
    <3>1. \A b \in Beats : WalkLine.data[b] = sram[<<WalkLine.line, b>>]
      BY <1>4 DEF EngineDone, MovedInv, EngineInv
    <3>2. \A b \in Beats : sram'[<<WalkLine.line, b>>] = sram[<<WalkLine.line, b>>]
      BY <1>4, SramKeeps, FieldTypes DEF EngineDone, Line
    <3> QED
      BY <3>1, <3>2 DEF WalkLine
  <2> HIDE DEF Kept
  <2> QED
    BY <1>1, <1>2, <2>2, <2>3
<1>5. CASE dState = "MISS_FINISH"
  <2>1. DMissFinish
    BY <1>5 DEF DClock, DAccept, DResolveHit, DResolveMiss, DStartWalk, DRest,
       DMissWriteBack, DMissFill, DFlushScan, DFlushWriteBack
  <2>2. \A s \in Sets, w \in Ways :
           IF s = LookupSet /\ w = dMshr.way
             THEN /\ LineAt(s, w)'.valid
                  /\ LineAt(s, w)'.line = LookupLine
                  /\ (LineAt(s, w)'.dirty <=> dReq.op = "WRITE")
                  /\ LineAt(s, w)'.data = Merged(dEngine.data)
           ELSE LineAt(s, w)' = LineAt(s, w)
    BY <2>1, FillLines
  <2>3. \A w \in Ways : LineAt(LookupSet, w).valid => LineAt(LookupSet, w).line # LookupLine
    BY <1>5 DEF MissInv, ControlInv, MissStates, HitWays
  <2>4. \A b \in Beats : dEngine.data[b] = sram'[<<LookupLine, b>>]
    <3>1. SameData(LookupLine, dEngine.data) /\ dEngine.st = "IDLE"
      BY <1>5 DEF EngineInv
    <3>2. \A b \in Beats : sram'[<<LookupLine, b>>] = sram[<<LookupLine, b>>]
      BY <3>1, SramKeeps, FieldTypes
    <3> QED
      BY <3>1, <3>2 DEF SameData
  <2>5. dReq.op # "WRITE" => Merged(dEngine.data) = dEngine.data
    BY DEF Merged
  <2>6. LookupSet \in Sets /\ SetOf(LookupLine) = LookupSet
    BY FieldTypes DEF LookupSet
  <2> HIDE DEF Kept
  <2>7. \A s \in Sets, w \in Ways : LineAt(s, w)'.valid => SetOf(LineAt(s, w)'.line) = s
    BY <2>2, <2>6 DEF LineInv
  <2>8. \A s \in Sets, v, w \in Ways :
          /\ LineAt(s, v)'.valid /\ LineAt(s, w)'.valid
          /\ LineAt(s, v)'.line = LineAt(s, w)'.line
          => v = w
    BY <2>2, <2>3 DEF LineInv
  <2>9. \A s \in Sets, w \in Ways :
          LineAt(s, w)'.valid /\ ~LineAt(s, w)'.dirty =>
            \A b \in Beats : LineAt(s, w)'.data[b] = sram'[<<LineAt(s, w)'.line, b>>]
    BY <1>1, <2>2, <2>4, <2>5 DEF Kept
  <2> QED
    BY <2>7, <2>8, <2>9 DEF LineInv, SameData
<1>6. CASE dLines' = dLines
  BY <1>1, <1>2, <1>6 DEF LineAt
<1> QED
  BY <1>3, <1>4, <1>5, <1>6, LinesStay

(* A cycle preserves MissInv.                                              *)
LEMMA MissStep ==
  ASSUME TypeOK, ControlInv, BridgeInv, MovedInv, EngineInv, LineInv, MissInv,
         NEW access, NEW plru \in Ways,
         FabricClock(dEngine, iEngine), DClock(access, plru, FlushReq)
  PROVE  MissInv'
<1> DEFINE Stored == \A b \in Beats : dMshr.victim.data[b] = sram'[<<dMshr.victim.line, b>>]
<1>1. dState \in {"IDLE", "FLUSH_SCAN", "FLUSH_WB"} <=> ~dMshr.busy
  BY DEF TypeOK, DTypeOK, DStates, ControlInv, MissStates
<1>2. dMshr.victim.line \in Lines
  BY FieldTypes DEF Line
<1>3. ASSUME dMshr' = dMshr, dReq' = dReq, dLines' = dLines
      PROVE  dMshr'.busy =>
               HitWays' = {} /\ dMshr'.victim = LineAt(LookupSet, dMshr.way)'
  BY <1>3 DEF MissInv, HitWays, LookupSet, LookupLine, LineAt
<1>4. CASE dState = "IDLE"
  <2>1. CASE DResolveMiss(access, plru)
    <3> DEFINE way == AllocWay(plru)
               victim == LineAt(LookupSet, way)
    <3>1. /\ dMshr' = [busy |-> TRUE, way |-> way, victim |-> victim]
          /\ dState' = IF victim.valid /\ victim.dirty THEN "MISS_WB" ELSE "MISS_FILL"
          /\ dReq' = dReq /\ dLines' = dLines
      BY <2>1 DEF DResolveMiss, Victim
    <3>2. HitWays' = {}
      BY <2>1, <3>1 DEF DResolveMiss, DHit, HitWays, LookupSet, LookupLine, LineAt
    <3>3. way \in Ways /\ LookupSet \in Sets /\ victim \in Line
      BY FieldTypes, WayTypes
    <3>4. LineAt(LookupSet, dMshr.way)' = victim
      BY <3>1 DEF LineAt, LookupSet, LookupLine
    <3>5. victim.valid /\ ~victim.dirty =>
            \A b \in Beats : victim.data[b] = sram'[<<victim.line, b>>]
      <4> HAVE victim.valid /\ ~victim.dirty
      <4>1. SameData(victim.line, victim.data)
        BY <3>3 DEF LineInv
      <4>2. \A s \in Sets, w \in Ways : Dirty(s, w) => LineAt(s, w).line # victim.line
        <5> HIDE DEF way
        <5> QED
          BY <3>3, OneWay DEF Dirty
      <4>3. victim.line \in Lines
        BY <3>3 DEF Line
      <4> HIDE DEF way, victim
      <4> QED
        BY <4>1, <4>2, <4>3, SameKept
    <3> HIDE DEF way, victim
    <3> QED
      BY <3>1, <3>2, <3>3, <3>4, <3>5 DEF MissInv, SameData
  <2>2. CASE ~DResolveMiss(access, plru)
    <3>1. dState' \in {"IDLE", "FLUSH_SCAN"} /\ dMshr' = dMshr
      BY <1>4, <2>2 DEF DClock, DAccept, DResolveHit, DStartWalk, DRest,
         DMissWriteBack, DMissFill, DMissFinish, DFlushScan, DFlushWriteBack
    <3> QED
      BY <1>1, <1>4, <3>1 DEF MissInv
  <2> QED
    BY <2>1, <2>2
<1>5. CASE dState = "MISS_WB"
  <2>1. /\ dMshr' = dMshr /\ dReq' = dReq /\ dLines' = dLines
        /\ dState' = IF EngineDone THEN "MISS_FILL" ELSE "MISS_WB"
    BY <1>5 DEF DClock, DAccept, DResolveHit, DResolveMiss, DStartWalk, DRest,
       DMissWriteBack, DMissFill, DMissFinish, DFlushScan, DFlushWriteBack
  <2>2. EngineDone => Stored
    <3> HAVE EngineDone
    <3>1. /\ \A b \in Beats : dEngine.data[b] = sram[<<dEngine.base, b>>]
          /\ dEngine.base = dMshr.victim.line /\ dEngine.data = dMshr.victim.data
      BY <1>5 DEF MovedInv, EngineInv, EngineDone
    <3>2. \A b \in Beats : sram'[<<dMshr.victim.line, b>>] = sram[<<dMshr.victim.line, b>>]
      BY <1>2, SramKeeps DEF EngineDone
    <3> QED
      BY <3>1, <3>2
  <2>3. dMshr.victim.valid /\ dMshr.victim.dirty
    BY <1>5 DEF MissInv
  <2> QED
    BY <1>3, <2>1, <2>2, <2>3 DEF MissInv, SameData
<1>6. CASE dState = "MISS_FILL"
  <2>1. /\ dMshr' = dMshr /\ dReq' = dReq /\ dLines' = dLines
        /\ dState' \in {"MISS_FILL", "MISS_FINISH"}
    BY <1>6 DEF DClock, DAccept, DResolveHit, DResolveMiss, DStartWalk, DRest,
       DMissWriteBack, DMissFill, DMissFinish, DFlushScan, DFlushWriteBack
  <2>2. dMshr.victim.valid => Stored
    <3>1. \A b \in Beats : sram'[<<dMshr.victim.line, b>>] = sram[<<dMshr.victim.line, b>>]
      <4>1. ~(dEngine.st = "REQ" /\ dEngine.write /\ dEngine.base = dMshr.victim.line)
        BY <1>6 DEF EngineInv
      <4> QED
        BY <1>2, <4>1, SramKeeps
    <3> QED
      BY <1>6, <3>1 DEF MissInv, SameData
  <2> QED
    BY <1>3, <2>1, <2>2 DEF MissInv, SameData
<1>7. CASE dState = "MISS_FINISH"
  <2>1. ~dMshr'.busy /\ dState' = "IDLE"
    BY <1>7 DEF DClock, DAccept, DResolveHit, DResolveMiss, DStartWalk, DRest,
       DMissWriteBack, DMissFill, DMissFinish, DFlushScan, DFlushWriteBack, NoMiss
  <2> QED
    BY <2>1 DEF MissInv
<1>8. CASE dState = "FLUSH_SCAN"
  <2>1. /\ dMshr' = dMshr /\ dLines' = dLines
        /\ IF WalkDirty THEN dState' = "FLUSH_WB" /\ dWalk' = dWalk
           ELSE dState' \in {"IDLE", "FLUSH_SCAN"}
    BY <1>8 DEF DClock, DAccept, DResolveHit, DResolveMiss, DStartWalk, DRest,
       DMissWriteBack, DMissFill, DMissFinish, DFlushScan, DFlushWriteBack, DWalkOn
  <2>2. WalkDirty => WalkDirty' \/ dWalk' # dWalk
    BY <2>1 DEF WalkDirty, WalkLine, LineAt
  <2> QED
    BY <1>1, <1>8, <2>1, <2>2 DEF MissInv
<1>9. CASE dState = "FLUSH_WB"
  <2>1. /\ dMshr' = dMshr
        /\ \/ dState' = "FLUSH_WB" /\ dWalk' = dWalk /\ dLines' = dLines
           \/ dState' \in {"IDLE", "FLUSH_SCAN"}
    BY <1>9 DEF DClock, DAccept, DResolveHit, DResolveMiss, DStartWalk, DRest,
       DMissWriteBack, DMissFill, DMissFinish, DFlushScan, DFlushWriteBack, DWalkOn
  <2>2. dWalk' = dWalk /\ dLines' = dLines => WalkDirty'
    BY <1>9 DEF MissInv, WalkDirty, WalkLine, LineAt
  <2> QED
    BY <1>1, <1>9, <2>1, <2>2 DEF MissInv
<1> QED
  BY <1>4, <1>5, <1>6, <1>7, <1>8, <1>9 DEF TypeOK, DTypeOK, DStates

-----------------------------------------------------------------------------
(* What the program reads: the line that holds the word, else memory.      *)
Holds(s, w, n) == LineAt(s, w).valid /\ LineAt(s, w).line = n
ContentsRead ==
  TypeOK /\ LineInv =>
    \A n \in Lines, b \in Beats :
      /\ \A s \in Sets, w \in Ways :
           Holds(s, w, n) => Contents[<<n, b>>] = LineAt(s, w).data[b]
      /\ (\A s \in Sets, w \in Ways : ~Holds(s, w, n)) =>
           Contents[<<n, b>>] = sram[<<n, b>>]

(* So it is, by the uniqueness of lines.                                   *)
LEMMA ContentsReadHolds == ContentsRead
<1> SUFFICES ASSUME TypeOK, LineInv, NEW n \in Lines, NEW b \in Beats
             PROVE  /\ \A s \in Sets, w \in Ways :
                         Holds(s, w, n) => Contents[<<n, b>>] = LineAt(s, w).data[b]
                    /\ (\A s \in Sets, w \in Ways : ~Holds(s, w, n)) =>
                         Contents[<<n, b>>] = sram[<<n, b>>]
  BY DEF ContentsRead
<1>1. SetOf(n) \in Sets
  BY SizeFacts
<1> DEFINE H == Holding(<<n, b>>)
<1>2. Contents[<<n, b>>] = IF H = {} THEN sram[<<n, b>>]
                           ELSE LineAt(SetOf(n), Min(H)).data[b]
  BY DEF Contents, Words
<1>3. H = {w \in Ways : Holds(SetOf(n), w, n)}
  BY DEF Holding, Holds
<1>4. H # {} => Min(H) \in H
  <2>1. Ways \subseteq Nat
    BY SizeFacts
  <2>2. H \in SUBSET Nat
    BY <1>3, <2>1
  <2> HIDE DEF H
  <2> QED
    BY <2>2, MinFacts
<1> HIDE DEF H
<1>5. ASSUME NEW s \in Sets, NEW w \in Ways, Holds(s, w, n)
      PROVE  Contents[<<n, b>>] = LineAt(s, w).data[b]
  <2>1. s = SetOf(n)
    BY <1>5 DEF LineInv, Holds
  <2>2. w \in H
    BY <1>3, <1>5, <2>1
  <2>3. Holds(s, Min(H), n) /\ Min(H) \in Ways
    BY <1>3, <1>4, <2>1, <2>2
  <2>4. Min(H) = w
    BY <1>5, <2>3 DEF LineInv, Holds
  <2> QED
    BY <1>2, <2>1, <2>2, <2>4
<1>6. ASSUME \A s \in Sets, w \in Ways : ~Holds(s, w, n)
      PROVE  Contents[<<n, b>>] = sram[<<n, b>>]
  BY <1>1, <1>2, <1>3, <1>6
<1> QED
  BY <1>5, <1>6

(* The cycle in which the access that the cache holds is performed.        *)
Performs(access) == DResolveHit(access) \/ dState = "MISS_FINISH"

(* The answer of a load is what its word contains.                         *)
LEMMA AnswerValue ==
  ASSUME TypeOK, ControlInv, EngineInv, LineInv, MissInv, NEW access, NEW plru,
         DClock(access, plru, FlushReq), Performs(access)
  PROVE  dHold' = [st |-> dReq.op,
                   val |-> IF dReq.op = "READ" THEN Contents[dReq.word] ELSE 0]
<1> DEFINE beat == dReq.word[2]
<1>1. dReq.word = <<LookupLine, beat>> /\ LookupLine \in Lines /\ beat \in Beats
  BY FieldTypes DEF LookupLine, Words
<1>2. /\ \A s \in Sets, w \in Ways :
           Holds(s, w, LookupLine) => Contents[dReq.word] = LineAt(s, w).data[beat]
      /\ (\A s \in Sets, w \in Ways : ~Holds(s, w, LookupLine)) =>
           Contents[dReq.word] = sram[dReq.word]
  <2>1. LookupLine \in Lines /\ beat \in Beats
    BY <1>1
  <2> HIDE DEF beat
  <2>2. /\ \A s \in Sets, w \in Ways :
             Holds(s, w, LookupLine) =>
               Contents[<<LookupLine, beat>>] = LineAt(s, w).data[beat]
        /\ (\A s \in Sets, w \in Ways : ~Holds(s, w, LookupLine)) =>
             Contents[<<LookupLine, beat>>] = sram[<<LookupLine, beat>>]
    BY <2>1, ContentsReadHolds DEF ContentsRead
  <2> QED
    BY <1>1, <2>2
<1>3. CASE DResolveHit(access)
  <2>1. Min(HitWays) \in HitWays /\ HitWays \subseteq Ways /\ LookupSet \in Sets
    BY <1>3, WayTypes, FieldTypes DEF DResolveHit, DHit
  <2>2. Holds(LookupSet, Min(HitWays), LookupLine)
    BY <2>1 DEF Holds, HitWays
  <2>3. Contents[dReq.word] = LineAt(LookupSet, Min(HitWays)).data[beat]
    BY <1>2, <2>1, <2>2
  <2>4. dHold' = Answer(Merged(LineAt(LookupSet, Min(HitWays)).data))
    BY <1>3 DEF DResolveHit
  <2> QED
    BY <2>3, <2>4 DEF Answer, Merged
<1>4. CASE dState = "MISS_FINISH"
  <2>1. dHold' = Answer(Merged(dEngine.data))
    BY <1>4 DEF DClock, DMissFinish, DAccept, DResolveHit, DResolveMiss, DStartWalk, DRest,
       DMissWriteBack, DMissFill, DFlushScan, DFlushWriteBack
  <2>2. HitWays = {}
    BY <1>4 DEF MissInv, ControlInv, MissStates
  <2>3. \A s \in Sets, w \in Ways : ~Holds(s, w, LookupLine)
    <3>1. \A s \in Sets, w \in Ways : Holds(s, w, LookupLine) => s = LookupSet
      BY DEF Holds, LineInv, LookupSet
    <3> QED
      BY <2>2, <3>1 DEF HitWays, Holds
  <2>4. Contents[dReq.word] = dEngine.data[beat]
    BY <1>1, <1>2, <1>4, <2>3 DEF EngineInv, SameData
  <2> QED
    BY <2>1, <2>4 DEF Answer, Merged
<1> QED
  BY <1>3, <1>4 DEF Performs

(* The word of the request in a line of data.                              *)
LEMMA MergedAt ==
  ASSUME TypeOK, NEW data \in LineData, NEW b \in Beats
  PROVE  Merged(data)[b] = IF dReq.op = "WRITE" /\ b = dReq.word[2] THEN dReq.val
                           ELSE data[b]
  BY DEF Merged, LineData

(* What the program reads changes by the stores that are performed, and by *)
(* nothing else that caches and bus do.                                    *)
LEMMA ContentsStep ==
  ASSUME TypeOK, TypeOK', ControlInv, BridgeInv, MovedInv, EngineInv,
         LineInv, LineInv', MissInv,
         NEW access, NEW plru,
         FabricClock(dEngine, iEngine), DClock(access, plru, FlushReq)
  PROVE  Contents' = IF Performs(access) /\ dReq.op = "WRITE"
                       THEN [Contents EXCEPT ![dReq.word] = dReq.val]
                     ELSE Contents
<1> DEFINE Stores(n, b) == /\ Performs(access) /\ dReq.op = "WRITE"
                           /\ n = LookupLine /\ b = dReq.word[2]
<1>1. ContentsRead /\ ContentsRead'
  BY ContentsReadHolds, PTL
<1>2. ASSUME NEW n \in Lines, NEW b \in Beats
      PROVE  Contents'[<<n, b>>] = IF Stores(n, b) THEN dReq.val ELSE Contents[<<n, b>>]
  <2>1. /\ \A s \in Sets, w \in Ways :
             Holds(s, w, n) => Contents[<<n, b>>] = LineAt(s, w).data[b]
        /\ (\A s \in Sets, w \in Ways : ~Holds(s, w, n)) =>
             Contents[<<n, b>>] = sram[<<n, b>>]
    BY <1>1 DEF ContentsRead
  <2>2. /\ \A s \in Sets, w \in Ways :
             Holds(s, w, n)' => Contents'[<<n, b>>] = LineAt(s, w)'.data[b]
        /\ (\A s \in Sets, w \in Ways : ~Holds(s, w, n)') =>
             Contents'[<<n, b>>] = sram'[<<n, b>>]
    BY <1>1 DEF ContentsRead
  <2>3. (\A s \in Sets, w \in Ways : ~Holds(s, w, n)) => sram'[<<n, b>>] = sram[<<n, b>>]
    BY CleanKeeps DEF Holds, Dirty
  <2>4. ASSUME \A s \in Sets, w \in Ways :
                 /\ Holds(s, w, n)' <=> Holds(s, w, n)
                 /\ Holds(s, w, n) =>
                      LineAt(s, w)'.data[b] = IF Stores(n, b) THEN dReq.val
                                              ELSE LineAt(s, w).data[b],
               Stores(n, b) => \E s \in Sets, w \in Ways : Holds(s, w, n)
        PROVE  Contents'[<<n, b>>] = IF Stores(n, b) THEN dReq.val ELSE Contents[<<n, b>>]
    <3> HIDE DEF Stores
    <3>1. CASE \E s \in Sets, w \in Ways : Holds(s, w, n)
      <4>1. PICK s \in Sets, w \in Ways : Holds(s, w, n)
        BY <3>1
      <4>2. /\ Contents[<<n, b>>] = LineAt(s, w).data[b]
            /\ Contents'[<<n, b>>] = LineAt(s, w)'.data[b]
        BY <2>1, <2>2, <2>4, <4>1
      <4> QED
        BY <2>4, <4>1, <4>2
    <3>2. CASE \A s \in Sets, w \in Ways : ~Holds(s, w, n)
      BY <2>1, <2>2, <2>3, <2>4, <3>2
    <3> QED
      BY <3>1, <3>2
  <2>5. CASE DResolveHit(access) /\ dReq.op = "WRITE"
    <3>1. /\ Min(HitWays) \in Ways /\ LookupSet \in Sets
          /\ Holds(LookupSet, Min(HitWays), LookupLine)
          /\ \A s \in Sets, w \in Ways :
               IF s = LookupSet /\ w = Min(HitWays)
                 THEN /\ LineAt(s, w)'.valid = LineAt(s, w).valid
                      /\ LineAt(s, w)'.line = LineAt(s, w).line
                      /\ LineAt(s, w)'.data = Merged(LineAt(s, w).data)
               ELSE LineAt(s, w)' = LineAt(s, w)
      BY <2>5, HitLines, FieldTypes DEF Holds
    <3>2. \A s \in Sets, w \in Ways : Holds(s, w, n)' <=> Holds(s, w, n)
      BY <3>1 DEF Holds
    <3>3. ASSUME NEW s \in Sets, NEW w \in Ways, Holds(s, w, n)
          PROVE  LineAt(s, w)'.data[b] = IF Stores(n, b) THEN dReq.val
                                         ELSE LineAt(s, w).data[b]
      <4>1. LineAt(s, w).data \in LineData
        BY FieldTypes DEF Line
      <4>2. s = LookupSet /\ w = Min(HitWays) <=> n = LookupLine
        BY <3>1, <3>3, OneWay DEF Holds
      <4>3. CASE n = LookupLine
        <5>1. LineAt(s, w)'.data[b] = Merged(LineAt(s, w).data)[b]
          BY <3>1, <4>2, <4>3
        <5> QED
          BY <2>5, <4>1, <4>3, <5>1, MergedAt DEF Performs
      <4>4. CASE n # LookupLine
        BY <3>1, <4>2, <4>4
      <4> QED
        BY <4>3, <4>4
    <3>4. Stores(n, b) => \E s \in Sets, w \in Ways : Holds(s, w, n)
      BY <3>1
    <3> QED
      BY <2>4, <3>2, <3>3, <3>4
  <2>6. CASE dState = "MISS_FINISH"
    <3>1. DMissFinish
      BY <2>6 DEF DClock, DAccept, DResolveHit, DResolveMiss, DStartWalk, DRest,
         DMissWriteBack, DMissFill, DFlushScan, DFlushWriteBack
    <3>2. \A s \in Sets, w \in Ways :
             IF s = LookupSet /\ w = dMshr.way
               THEN /\ LineAt(s, w)'.valid
                    /\ LineAt(s, w)'.line = LookupLine
                    /\ LineAt(s, w)'.data = Merged(dEngine.data)
             ELSE LineAt(s, w)' = LineAt(s, w)
      BY <3>1, FillLines
    <3>3. /\ dMshr.way \in Ways /\ LookupSet \in Sets /\ dEngine.data \in LineData
          /\ HitWays = {} /\ dMshr.victim = LineAt(LookupSet, dMshr.way)
          /\ SameData(LookupLine, dEngine.data)
          /\ dMshr.victim.valid => SameData(dMshr.victim.line, dMshr.victim.data)
          /\ dEngine.st = "IDLE"
      BY <2>6, FieldTypes DEF MissInv, ControlInv, MissStates, EngineInv, Engine
    <3>4. \A s \in Sets, w \in Ways : ~Holds(s, w, LookupLine)
      <4>1. \A s \in Sets, w \in Ways : Holds(s, w, LookupLine) => s = LookupSet
        BY DEF Holds, LineInv, LookupSet
      <4> QED
        BY <3>3, <4>1 DEF HitWays, Holds
    <3>5. CASE n = LookupLine
      <4>1. PICK s \in Sets, w \in Ways : s = LookupSet /\ w = dMshr.way
        BY <3>3
      <4>2. Holds(s, w, n)' /\ LineAt(s, w)'.data = Merged(dEngine.data)
        BY <3>2, <3>5, <4>1 DEF Holds
      <4>3. Contents'[<<n, b>>] = Merged(dEngine.data)[b]
        BY <2>2, <4>2
      <4>4. Contents[<<n, b>>] = dEngine.data[b]
        BY <2>1, <3>3, <3>4, <3>5 DEF SameData
      <4> QED
        BY <2>6, <3>3, <3>5, <4>3, <4>4, MergedAt DEF Performs
    <3>6. CASE n # LookupLine
      <4>1. CASE \E s \in Sets, w \in Ways : Holds(s, w, n)'
        <5>1. PICK s \in Sets, w \in Ways : Holds(s, w, n)'
          BY <4>1
        <5>2. LineAt(s, w)' = LineAt(s, w)
          BY <3>2, <3>6, <5>1 DEF Holds
        <5> QED
          BY <2>1, <2>2, <3>6, <5>1, <5>2 DEF Holds
      <4>2. CASE \A s \in Sets, w \in Ways : ~Holds(s, w, n)'
        <5>1. Contents'[<<n, b>>] = sram[<<n, b>>]
          <6>1. sram'[<<n, b>>] = sram[<<n, b>>]
            BY <3>3, SramKeeps
          <6> QED
            BY <2>2, <4>2, <6>1
        <5>2. ASSUME NEW s \in Sets, NEW w \in Ways, Holds(s, w, n)
              PROVE  Contents[<<n, b>>] = sram[<<n, b>>]
          <6>1. s = LookupSet /\ w = dMshr.way
            BY <3>2, <4>2, <5>2 DEF Holds
          <6>2. dMshr.victim.valid /\ dMshr.victim.line = n
            BY <3>3, <5>2, <6>1 DEF Holds
          <6>3. Contents[<<n, b>>] = dMshr.victim.data[b]
            BY <2>1, <3>3, <5>2, <6>1
          <6> QED
            BY <3>3, <6>2, <6>3 DEF SameData
        <5> QED
          BY <2>1, <3>6, <5>1, <5>2
      <4> QED
        BY <4>1, <4>2
    <3> QED
      BY <3>5, <3>6
  <2>7. CASE dState = "FLUSH_WB" /\ EngineDone
    <3>1. DFlushWriteBack
      BY <2>7 DEF DClock, DAccept, DResolveHit, DResolveMiss, DStartWalk, DRest,
         DMissWriteBack, DMissFill, DMissFinish, DFlushScan
    <3>2. \A s \in Sets, w \in Ways :
            /\ LineAt(s, w)'.valid = LineAt(s, w).valid
            /\ LineAt(s, w)'.line = LineAt(s, w).line
            /\ LineAt(s, w)'.data = LineAt(s, w).data
      BY <2>7, <3>1, CleanedLines
    <3>3. ~Stores(n, b)
      BY <2>7 DEF Performs, DResolveHit
    <3> QED
      BY <2>4, <3>2, <3>3 DEF Holds
  <2>8. CASE /\ ~(DResolveHit(access) /\ dReq.op = "WRITE") /\ dState # "MISS_FINISH"
             /\ ~(dState = "FLUSH_WB" /\ EngineDone)
    <3>1. dLines' = dLines
      BY <2>8, LinesStay
    <3>2. \A s \in Sets, w \in Ways : LineAt(s, w)' = LineAt(s, w)
      BY <3>1 DEF LineAt
    <3>3. ~Stores(n, b)
      BY <2>8 DEF Performs
    <3> QED
      BY <2>4, <3>2, <3>3 DEF Holds
  <2> QED
    BY <2>5, <2>6, <2>7, <2>8
<1>3. /\ dReq.word = <<LookupLine, dReq.word[2]>>
      /\ Contents \in [Words -> WordValues] /\ Contents' \in [Words -> WordValues]
  <2>1. ContentsTyped /\ ContentsTyped'
    BY ContentsType, PTL
  <2> QED
    BY <2>1, FieldTypes DEF ContentsTyped, TypeOK, LookupLine, Words
<1>4. ASSUME NEW word \in Words
      PROVE  Contents'[word] = IF Performs(access) /\ dReq.op = "WRITE" /\ word = dReq.word
                                 THEN dReq.val ELSE Contents[word]
  <2>1. PICK n \in Lines, b \in Beats : word = <<n, b>>
    BY DEF Words
  <2>2. n = LookupLine /\ b = dReq.word[2] <=> word = dReq.word
    BY <1>3, <2>1
  <2> QED
    BY <1>2, <2>1, <2>2
<1> HIDE DEF Stores
<1> QED
  BY <1>3, <1>4

-----------------------------------------------------------------------------
(* A fetch is in the cache from its acceptance until its answer is taken.  *)
FetchInv ==
  /\ iHold.valid => iState = "IDLE" /\ ~iPending
  /\ iReq.valid <=> iPending \/ iState # "IDLE" \/ iHold.valid

(* A cycle preserves FetchInv.                                             *)
LEMMA FetchStep ==
  ASSUME TypeOK, FetchInv, NEW fetch \in Fetches, NEW plru, NEW taken \in BOOLEAN,
         IClock(fetch, plru, InvAll, taken)
  PROVE  FetchInv'
<1>1. /\ iReq \in [valid : BOOLEAN, word : Words, part : Parts]
      /\ iHold.valid \in BOOLEAN /\ iPending \in BOOLEAN
  BY DEF TypeOK, ITypeOK
<1>2. ASSUME NEW data, IGet(data)
      PROVE  /\ iReq'.valid = iReq.valid
             /\ iHold'.valid = (iReq.part # "FIRST") /\ iPending' = (iReq.part = "FIRST")
  BY <1>1, <1>2 DEF IGet
<1>3. CASE IAccept(fetch, InvAll)
  <2>1. fetch.valid /\ IReady(InvAll)
    BY <1>3 DEF IAccept, Fetches, NoFetch
  <2> QED
    BY <1>1, <1>3, <2>1 DEF IAccept, IReady, FetchInv
<1>4. CASE IResolveHit(fetch, InvAll)
  <2>1. iState = "IDLE" /\ iState' = "IDLE" /\ iPending
    BY <1>4 DEF IResolveHit
  <2>2. PICK data : IGet(data)
    BY <1>4 DEF IResolveHit
  <2> QED
    BY <1>1, <1>2, <2>1, <2>2 DEF FetchInv
<1>5. CASE IResolveMiss(fetch, plru, InvAll)
  BY <1>1, <1>5 DEF IResolveMiss, FetchInv
<1>6. CASE IRest(fetch, InvAll, taken)
  BY <1>1, <1>6 DEF IRest, FetchInv, IHoldAfter, IReqAfter, NoInstrs, NoFetch
<1>7. CASE IMissFill(InvAll)
  BY <1>1, <1>7 DEF IMissFill, FetchInv
<1>8. CASE IMissFinish(InvAll)
  <2>1. iState = "MISS_FINISH" /\ iState' = "IDLE"
    BY <1>8 DEF IMissFinish
  <2>2. PICK data : IGet(data)
    BY <1>8 DEF IMissFinish
  <2> QED
    BY <1>1, <1>2, <2>1, <2>2 DEF FetchInv
<1> QED
  BY <1>3, <1>4, <1>5, <1>6, <1>7, <1>8 DEF IClock

(* The invariant of caches, bus and memory.                                *)
CacheInv == FenceInv /\ BridgeInv /\ MovedInv /\ EngineInv /\ LineInv /\ MissInv /\ FetchInv

(* It holds at reset,                                                      *)
LEMMA CacheInvInit == Init => CacheInv
<1> SUFFICES ASSUME Init PROVE CacheInv
  OBVIOUS
<1>1. FenceInv
  BY FenceInvInit
<1>2. BridgeInv /\ MovedInv
  BY DEF Init, FabricInit, DInit, IInit, BridgeInv, MovedInv, NoBridge, NoEngine,
     WriteStates, ReadStates, Masters
<1>3. EngineInv /\ MissInv
  BY DEF Init, DInit, EngineInv, MissInv, NoEngine, NoMiss
<1>4. LineInv
  BY DEF Init, DInit, LineInv, LineAt, NoLine
<1>5. FetchInv
  BY DEF Init, IInit, FetchInv, NoFetch, NoInstrs
<1> QED
  BY <1>1, <1>2, <1>3, <1>4, <1>5 DEF CacheInv

(* every cycle preserves it,                                               *)
LEMMA CacheInvStep == CacheInv /\ [Next]_vars => CacheInv'
<1> SUFFICES ASSUME CacheInv, [Next]_vars PROVE CacheInv'
  OBVIOUS
<1>0. FenceInv'
  BY FenceInvStep DEF CacheInv
<1>1. CASE Next
  <2>1. PICK access \in Offers, fetch \in Fetches, dPlru \in Ways, iPlru \in IWays,
             taken \in BOOLEAN : Cycle(access, fetch, dPlru, iPlru, taken)
    BY <1>1 DEF Next
  <2>2. /\ FabricClock(dEngine, iEngine) /\ DClock(access, dPlru, FlushReq)
        /\ IClock(fetch, iPlru, InvAll, taken)
        /\ dEngine' = EngineNext(dEngine, DStart, Ack("D"), bridge["D"].val)
        /\ iEngine' = EngineNext(iEngine, IStart, Ack("I"), bridge["I"].val)
    BY <2>1 DEF Cycle, DClock, IClock
  <2>3. BridgeInv'
    BY <2>2, BridgeStep DEF CacheInv, FenceInv
  <2>4. MovedInv'
    BY <2>2, MovedStep DEF CacheInv, FenceInv
  <2>5. EngineInv'
    BY <2>2, EngineStep DEF CacheInv, FenceInv
  <2>6. LineInv'
    BY <2>2, LineStep DEF CacheInv, FenceInv
  <2>7. MissInv'
    BY <2>2, MissStep DEF CacheInv, FenceInv
  <2>8. FetchInv'
    BY <2>2, FetchStep DEF CacheInv, FenceInv
  <2> QED
    BY <1>0, <2>3, <2>4, <2>5, <2>6, <2>7, <2>8 DEF CacheInv
<1>2. CASE UNCHANGED vars
  <2> USE <1>2 DEF vars, dVars, iVars, fabricVars
  <2>1. BridgeInv' /\ MovedInv'
    BY DEF CacheInv, BridgeInv, MovedInv, EngineOf, EngineWord, Serves
  <2>2. EngineInv' /\ MissInv'
    BY DEF CacheInv, EngineInv, MissInv, WalkLine, LineAt, LookupLine, LookupSet, SameData,
       HitWays, WalkDirty
  <2>3. LineInv' /\ FetchInv'
    BY DEF CacheInv, LineInv, FetchInv, LineAt, SameData
  <2> QED
    BY <1>0, <2>1, <2>2, <2>3 DEF CacheInv
<1> QED
  BY <1>1, <1>2

(* and so it always holds, for every geometry.                             *)
THEOREM CacheInvariant == Spec => []CacheInv
  BY CacheInvInit, CacheInvStep, PTL DEF Spec

-----------------------------------------------------------------------------
(* The data cache implements its port, and the instruction cache its own.  *)
LEMMA NoWordFact == NoWord \notin Words
<1>1. \A w \in Words : w # <<>>
  BY DEF Words
<1> QED
  BY <1>1 DEF NoWord

(* The access that the cache holds, in each of its states.                 *)
LEMMA HeldFacts ==
  ASSUME TypeOK, ControlInv
  PROVE  /\ dHold.st = "READ" => PortState = "RRESP"
         /\ dHold.st = "WRITE" => PortState = "WRESP"
         /\ dPending \/ dMshr.busy => dHold = NoAnswer /\ PortState = dReq.op
         /\ dHold = NoAnswer /\ ~dPending /\ ~dMshr.busy => PortState = "IDLE"
         /\ dHold # NoAnswer => dHold.st = dReq.op /\ dHold.st \in {"READ", "WRITE"}
<1>1. /\ dHold.st \in {"NONE", "READ", "WRITE"} /\ dReq.op \in {"NONE", "READ", "WRITE"}
      /\ dPending \in BOOLEAN /\ dMshr.busy \in BOOLEAN
  BY FieldTypes DEF TypeOK, DTypeOK
<1>2. dHold.st # "NONE" => dHold # NoAnswer
  BY DEF NoAnswer
<1>3. dMshr.busy => dState # "IDLE"
  BY DEF ControlInv, MissStates
<1> QED
  BY <1>1, <1>2, <1>3 DEF ControlInv, PortState

(* Each cycle is a step of the data cache's port or none.                  *)
LEMMA DataPortStep ==
  ASSUME TypeOK, TypeOK', ControlInv, BridgeInv, MovedInv, EngineInv,
         LineInv, LineInv', MissInv,
         NEW access \in Offers, NEW plru,
         FabricClock(dEngine, iEngine), DClock(access, plru, FlushReq)
  PROVE  [Data!PortNext]_(Data!portVars)
<1>1. Contents' = IF Performs(access) /\ dReq.op = "WRITE"
                    THEN [Contents EXCEPT ![dReq.word] = dReq.val]
                  ELSE Contents
  BY ContentsStep
<1>2. /\ dReq.op \in {"NONE", "READ", "WRITE"}
      /\ dReq.word \in Words /\ dReq.val \in WordValues
      /\ dHold.st \in {"NONE", "READ", "WRITE"} /\ dMshr.busy \in BOOLEAN
  BY FieldTypes DEF TypeOK, DTypeOK
<1>3. ASSUME NEW held \in Data!Accesses \cup {Data!Idle}, NEW done \in BOOLEAN,
             NEW taken \in BOOLEAN,
             held # Data!Idle => Data!CacheReady, Data!PortClock(held, done, taken)
      PROVE  Data!PortNext
  BY <1>3 DEF Data!PortNext
<1>4. CASE DAccept(access)
  <2>1. /\ access.op \in {"READ", "WRITE"} /\ access.word \in Words
        /\ access.val \in WordValues
        /\ access.op = "READ" => access.val = 0
        /\ DReady(FlushReq)
    BY <1>4, OfferTypes DEF DAccept, Request
  <2> DEFINE held == [st |-> access.op, addr |-> access.word, val |-> access.val]
  <2>2. held \in Data!Accesses /\ held # Data!Idle
    <3>1. CASE access.op = "READ"
      <4>1. held = Data!Load(access.word)
        BY <2>1, <3>1 DEF Data!Load
      <4> HIDE DEF held
      <4> QED
        BY <2>1, <4>1 DEF Data!Accesses, Data!Load, Data!Idle
    <3>2. CASE access.op = "WRITE"
      <4>1. held = Data!Store(access.word, access.val) /\ access.val \in Data!Values
        BY <2>1, <3>2 DEF Data!Store, Data!Values, WordValues
      <4> HIDE DEF held
      <4> QED
        BY <2>1, <4>1 DEF Data!Accesses, Data!Store, Data!Idle
    <3> QED
      BY <2>1, <3>1, <3>2
  <2>3. HeldAccess' = held
    BY <1>4, <2>1 DEF DAccept, HeldAccess, PortState
  <2>4. HeldAccess.st = "IDLE"
    BY <2>1, HeldFacts DEF DReady, HeldAccess
  <2>5. Contents' = Contents
    BY <1>1, <1>4 DEF Performs, DResolveHit, DAccept
  <2> HIDE DEF held
  <2>6. Data!PortClock(held, FALSE, FALSE)
    BY <2>2, <2>3, <2>4, <2>5 DEF Data!PortClock, Data!LoadAnswered, Data!StoreAnswered
  <2> QED
    BY <1>3, <2>2, <2>4, <2>6 DEF Data!CacheReady
<1>5. CASE Performs(access)
  <2>1. /\ dReq.op \in {"READ", "WRITE"}
        /\ dPending \/ dMshr.busy
    BY <1>2, <1>5 DEF Performs, DResolveHit, ControlInv, MissStates
  <2>2. HeldAccess = [st |-> dReq.op, addr |-> dReq.word, val |-> dReq.val]
    <3>1. PortState = dReq.op
      BY <2>1, HeldFacts
    <3> QED
      BY <2>1, <3>1 DEF HeldAccess
  <2>3. HeldAccess' = [st |-> IF dReq.op = "READ" THEN "RRESP" ELSE "WRESP",
                       addr |-> dReq.word,
                       val |-> IF dReq.op = "READ" THEN Contents[dReq.word] ELSE dReq.val]
    <3>1. dHold' = [st |-> dReq.op,
                    val |-> IF dReq.op = "READ" THEN Contents[dReq.word] ELSE 0]
      BY <1>5, AnswerValue
    <3>2. dReq' = dReq
      BY <1>5 DEF Performs, DClock, DResolveHit, DMissFinish, DAccept, DResolveMiss,
         DStartWalk, DRest, DMissWriteBack, DMissFill, DFlushScan, DFlushWriteBack
    <3>3. dHold' # NoAnswer
      BY <2>1, <3>1 DEF NoAnswer
    <3>4. PortState' = IF dReq.op = "READ" THEN "RRESP" ELSE "WRESP"
      BY <2>1, <3>1, <3>3 DEF PortState
    <3> QED
      BY <2>1, <3>1, <3>2, <3>4 DEF HeldAccess
  <2>4. CASE dReq.op = "READ"
    <3>0. HeldAccess.addr = dReq.word
      BY <2>2
    <3>1. HeldAccess' =
            [HeldAccess EXCEPT !.st = "RRESP", !.val = Contents[HeldAccess.addr]]
      <4> DEFINE val == Contents[dReq.word]
      <4>1. HeldAccess' = [st |-> "RRESP", addr |-> dReq.word, val |-> val]
        BY <2>3, <2>4
      <4> HIDE DEF val
      <4>2. [HeldAccess EXCEPT !.st = "RRESP", !.val = val] =
              [[HeldAccess EXCEPT !.st = "RRESP"] EXCEPT !.val = val]
        OBVIOUS
      <4>3. HeldAccess' = [[HeldAccess EXCEPT !.st = "RRESP"] EXCEPT !.val = val]
        <5>1. [HeldAccess EXCEPT !.st = "RRESP"] =
                [st |-> "RRESP", addr |-> dReq.word, val |-> dReq.val]
          BY <2>2
        <5>2. [[st |-> "RRESP", addr |-> dReq.word, val |-> dReq.val] EXCEPT !.val = val] =
                [st |-> "RRESP", addr |-> dReq.word, val |-> val]
          OBVIOUS
        <5> QED
          BY <4>1, <5>1, <5>2, Zenon
      <4> QED
        BY <3>0, <4>2, <4>3 DEF val
    <3>2. HeldAccess.st = "READ" /\ Contents' = Contents
      BY <1>1, <2>2, <2>4
    <3>3. Data!PortClock(Data!Idle, TRUE, FALSE)
      BY <3>1, <3>2 DEF Data!PortClock, Data!LoadAnswered, Data!StoreAnswered
    <3> QED
      BY <1>3, <3>3
  <2>5. CASE dReq.op = "WRITE"
    <3>1. HeldAccess' = [HeldAccess EXCEPT !.st = "WRESP"]
      BY <2>2, <2>3, <2>5
    <3>2. /\ HeldAccess.st = "WRITE"
          /\ Contents' = [Contents EXCEPT ![HeldAccess.addr] = HeldAccess.val]
      BY <1>1, <1>5, <2>2, <2>5
    <3>3. Data!PortClock(Data!Idle, TRUE, FALSE)
      BY <3>1, <3>2 DEF Data!PortClock, Data!LoadAnswered, Data!StoreAnswered
    <3> QED
      BY <1>3, <3>3
  <2> QED
    BY <2>1, <2>4, <2>5
<1>6. CASE /\ dHold # NoAnswer
           /\ DStartWalk(access, FlushReq) \/ DRest(access, FlushReq)
  <2>1. HeldAccess.st \in {"RRESP", "WRESP"}
    BY <1>6, HeldFacts DEF HeldAccess
  <2>2. HeldAccess' = Data!Idle
    <3>1. dPending' = FALSE /\ dMshr'.busy = FALSE /\ dHold' = NoAnswer
      BY <1>2, <1>6 DEF DStartWalk, DRest, ControlInv, MissStates
    <3>2. PortState' = "IDLE"
      BY <3>1 DEF PortState
    <3> QED
      BY <3>2 DEF HeldAccess, Data!Idle
  <2>3. Contents' = Contents
    BY <1>1, <1>6 DEF Performs, DResolveHit, DStartWalk, DRest
  <2>4. Data!PortClock(Data!Idle, FALSE, TRUE)
    BY <2>1, <2>2, <2>3 DEF Data!PortClock, Data!LoadAnswered, Data!StoreAnswered
  <2> QED
    BY <1>3, <2>4
<1>7. CASE /\ ~DAccept(access) /\ ~Performs(access)
           /\ ~(/\ dHold # NoAnswer
                /\ DStartWalk(access, FlushReq) \/ DRest(access, FlushReq))
  <2>1. Contents' = Contents
    BY <1>1, <1>7
  <2>2. HeldAccess' = HeldAccess
    <3>1. CASE dPending \/ dMshr.busy
      <4>1. \/ DResolveMiss(access, plru)
            \/ DMissWriteBack
            \/ DMissFill
        BY <1>2, <1>7, <3>1 DEF DClock, Performs, DMissFinish, DFlushScan, DFlushWriteBack,
           DStartWalk, DRest, ControlInv, MissStates
      <4>2. dMshr'.busy /\ dReq' = dReq /\ dHold' = NoAnswer
        BY <1>2, <3>1, <4>1
           DEF DResolveMiss, DMissWriteBack, DMissFill, ControlInv, MissStates
      <4>3. PortState = dReq.op /\ PortState' = dReq.op
        BY <3>1, <4>2, HeldFacts DEF PortState
      <4>4. dReq.op \in {"READ", "WRITE"}
        BY <1>2, <3>1 DEF ControlInv
      <4> QED
        BY <4>2, <4>3, <4>4 DEF HeldAccess
    <3>2. CASE ~dPending /\ ~dMshr.busy
      <4>1. \/ DStartWalk(access, FlushReq)
            \/ DRest(access, FlushReq)
            \/ DFlushScan
            \/ DFlushWriteBack
        BY <1>7, <3>2 DEF DClock, Performs, DResolveHit, DResolveMiss, DMissWriteBack,
           DMissFill, DMissFinish, ControlInv, MissStates
      <4>2. dHold = NoAnswer
        BY <1>7, <4>1 DEF DFlushScan, DFlushWriteBack, ControlInv
      <4>3. dHold' = NoAnswer /\ dPending' = dPending /\ dMshr' = dMshr
        BY <4>1, <4>2 DEF DStartWalk, DRest, DFlushScan, DFlushWriteBack
      <4>4. PortState = "IDLE" /\ PortState' = "IDLE"
        BY <3>2, <4>2, <4>3 DEF PortState
      <4> QED
        BY <4>4 DEF HeldAccess
    <3> QED
      BY <3>1, <3>2
  <2> QED
    BY <2>1, <2>2 DEF Data!portVars
<1> QED
  BY <1>4, <1>5, <1>6, <1>7

(* Each cycle is a step of the instruction cache's port or none.           *)
LEMMA FetchPortStep ==
  ASSUME TypeOK, FetchInv, NEW fetch \in Fetches, NEW plru, NEW taken \in BOOLEAN,
         IClock(fetch, plru, InvAll, taken)
  PROVE  [Instructions!FetchPortNext]_HeldFetch
<1>1. /\ iReq \in [valid : BOOLEAN, word : Words, part : Parts]
      /\ iHold.valid \in BOOLEAN /\ iPending \in BOOLEAN
  BY DEF TypeOK, ITypeOK
<1>2. ASSUME NEW addr \in Words \cup {NoWord}, NEW done \in BOOLEAN, NEW t \in BOOLEAN,
             Instructions!FetchPortClock(addr, done, t)
      PROVE  Instructions!FetchPortNext
  BY <1>2 DEF Instructions!FetchPortNext
<1>3. CASE IAccept(fetch, InvAll)
  <2>1. fetch.valid /\ IReady(InvAll) /\ fetch.word \in Words
    BY <1>3, FetchOffers DEF IAccept, Fetches, NoFetch
  <2>2. HeldFetch.st = "IDLE"
    BY <1>1, <1>3, <2>1 DEF HeldFetch, IAccept, IReady, FetchInv
  <2>3. HeldFetch' = [st |-> "BUSY", addr |-> fetch.word]
    BY <1>3, <2>1 DEF HeldFetch, IAccept, IReady
  <2>4. fetch.word # NoWord
    BY <2>1, NoWordFact
  <2>5. Instructions!FetchPortClock(fetch.word, FALSE, FALSE)
    BY <2>2, <2>3, <2>4 DEF Instructions!FetchPortClock, Instructions!RespValid
  <2> QED
    BY <1>2, <2>1, <2>5
<1>4. ASSUME NEW data, IGet(data), iReq.valid, ~iHold.valid
      PROVE  [Instructions!FetchPortNext]_HeldFetch
  <2>1. iReq'.valid = iReq.valid /\ iReq'.word = iReq.word
    BY <1>1, <1>4 DEF IGet
  <2>2. HeldFetch = [st |-> "BUSY", addr |-> iReq.word]
    BY <1>4 DEF HeldFetch
  <2>3. CASE iHold'.valid
    <3>1. HeldFetch' = [st |-> "ANSWER", addr |-> iReq.word]
      BY <1>4, <2>1, <2>3 DEF HeldFetch
    <3>2. HeldFetch' = [HeldFetch EXCEPT !.st = "ANSWER"] /\ HeldFetch.st = "BUSY"
      BY <2>2, <3>1
    <3>3. Instructions!FetchPortClock(NoWord, TRUE, FALSE)
      BY <3>2 DEF Instructions!FetchPortClock, Instructions!RespValid
    <3> QED
      BY <1>2, <3>3
  <2>4. CASE ~iHold'.valid
    BY <1>4, <2>1, <2>2, <2>4 DEF HeldFetch
  <2> QED
    BY <2>3, <2>4
<1>5. CASE IResolveHit(fetch, InvAll)
  BY <1>1, <1>4, <1>5 DEF IResolveHit, FetchInv
<1>6. CASE IMissFinish(InvAll)
  BY <1>1, <1>4, <1>6 DEF IMissFinish, FetchInv
<1>7. CASE IRest(fetch, InvAll, taken)
  <2>1. CASE iHold.valid /\ taken
    <3>1. HeldFetch.st = "ANSWER"
      BY <2>1 DEF HeldFetch
    <3>2. HeldFetch' = Instructions!NoPortFetch
      BY <1>7, <2>1 DEF IRest, IHoldAfter, IReqAfter, NoInstrs, NoFetch, HeldFetch,
         Instructions!NoPortFetch
    <3>3. Instructions!FetchPortClock(NoWord, FALSE, TRUE)
      BY <3>1, <3>2 DEF Instructions!FetchPortClock, Instructions!RespValid
    <3> QED
      BY <1>2, <3>3
  <2>2. CASE ~(iHold.valid /\ taken)
    BY <1>7, <2>2 DEF IRest, IHoldAfter, IReqAfter, HeldFetch
  <2> QED
    BY <2>1, <2>2
<1>8. CASE IResolveMiss(fetch, plru, InvAll) \/ IMissFill(InvAll)
  BY <1>8 DEF IResolveMiss, IMissFill, HeldFetch
<1> QED
  BY <1>3, <1>5, <1>6, <1>7, <1>8 DEF IClock

(* Data cache, bus and memory behave as one memory that holds one access   *)
(* at a time, whatever is evicted, written back, refilled and cleaned      *)
(* behind the port, and the instruction cache answers exactly the fetches  *)
(* it took: for every geometry of the caches and every size of memory.     *)
THEOREM CachesImplementPorts == Spec => ImplementsPorts
<1>1. Init => Data!PortInit /\ Instructions!FetchPortInit
  <2> SUFFICES ASSUME Init PROVE Data!PortInit /\ Instructions!FetchPortInit
    OBVIOUS
  <2>1. HeldAccess = Data!Idle
    BY DEF Init, DInit, HeldAccess, PortState, NoMiss, NoAnswer, Data!Idle
  <2>2. Contents = [w \in Words |-> 0]
    <3>1. \A w \in Words : Holding(w) = {}
      BY SizeFacts DEF Init, DInit, Holding, LineAt, NoLine, Words
    <3> QED
      BY <3>1 DEF Init, FabricInit, Contents
  <2>3. HeldFetch = Instructions!NoPortFetch
    BY DEF Init, IInit, HeldFetch, NoFetch, NoInstrs, Instructions!NoPortFetch
  <2> QED
    BY <2>1, <2>2, <2>3 DEF Data!PortInit, Instructions!FetchPortInit
<1>2. CacheInv /\ CacheInv' /\ [Next]_vars =>
        [Data!PortNext]_(Data!portVars) /\ [Instructions!FetchPortNext]_HeldFetch
  <2> SUFFICES ASSUME CacheInv, CacheInv', [Next]_vars
               PROVE  [Data!PortNext]_(Data!portVars)
                      /\ [Instructions!FetchPortNext]_HeldFetch
    OBVIOUS
  <2>1. CASE Next
    <3>1. PICK access \in Offers, fetch \in Fetches, dPlru \in Ways, iPlru \in IWays,
               taken \in BOOLEAN : Cycle(access, fetch, dPlru, iPlru, taken)
      BY <2>1 DEF Next
    <3> QED
      BY <3>1, DataPortStep, FetchPortStep DEF CacheInv, FenceInv, Cycle
  <2>2. CASE UNCHANGED vars
    <3>1. Contents' = Contents /\ HeldAccess' = HeldAccess /\ HeldFetch' = HeldFetch
      BY <2>2 DEF vars, dVars, iVars, fabricVars, Contents, Holding, LineAt, HeldAccess,
         PortState, HeldFetch
    <3> QED
      BY <3>1 DEF Data!portVars
  <2> QED
    BY <2>1, <2>2
<1> QED
  BY <1>1, <1>2, CacheInvariant, PTL
     DEF Spec, ImplementsPorts, Data!PortSpec, Instructions!FetchPortSpec

-----------------------------------------------------------------------------
(* What a fetch sees after a FENCE.I.  A word of the line that the         *)
(* instruction cache is filling has been read.                             *)
Read(b) ==
  (iEngine.st = "REQ" /\ b < iEngine.beat) \/ iEngine.st = "DONE" \/ iState = "MISS_FINISH"

(* The fill: its engine moves the line looked up, and a word on its way is *)
(* the one of memory.                                                      *)
FillInv ==
  /\ iState = "IDLE" => iEngine.st = "IDLE"
  /\ iState = "MISS_FINISH" => iEngine.st = "IDLE" /\ iEngine.base = FetchLine
  /\ iEngine.st # "IDLE" => iEngine.base = FetchLine
  /\ bridge["I"].st = "READ_DATA" => sramPort.val = sram[bridge["I"].word]
  /\ bridge["I"].st = "ACK" => bridge["I"].val = sram[bridge["I"].word]

(* While the data cache's bridge writes a word, that of the instruction    *)
(* cache has nothing of its last word left to hand over, and a fill that   *)
(* has been read in full is in the cache when the write is answered.       *)
DWrites ==
  \/ bridge["D"].st \in {"WRITE_DATA", "WRITE_RESP"}
  \/ bridge["D"].st = "ACK" /\ dEngine.write
TurnInv ==
  /\ Serves("D", "ADDR") => bridge["I"].st # "ACK"
  /\ DWrites =>
       /\ iEngine.st # "DONE" /\ bridge["I"].st \in {"IDLE", "READ_ADDR"}
       /\ iEngine.st = "REQ" /\ bridge["I"].st = "IDLE" => iEngine.beat = 0
       /\ bridge["D"].st # "WRITE_DATA" => iState # "MISS_FINISH"

(* The words that the engine of a master has had transferred.              *)
Transferred(m) ==
  EngineOf(m).beat + (IF bridge[m].st \in {"WRITE_RESP", "READ_DATA", "ACK"} THEN 1 ELSE 0)

(* The fill is ahead of the write-back, and when only level it is next.    *)
Ahead ==
  /\ Transferred("I") >= Transferred("D")
  /\ Transferred("I") = Transferred("D") =>
       /\ ~Serves("D", "ADDR") /\ bridge["D"].st # "WRITE_DATA"
       /\ bridge["I"].st # "READ_DATA"
       /\ xbar.st = "IDLE" => bridge["I"].st = "READ_ADDR" /\ bridge["D"].st = "ACK"

(* A word that was read and has been written since: the write-back is      *)
(* still under way and will end after the fill.  A bridge that has been    *)
(* served needs two cycles to ask again, and in these the crossbar takes   *)
(* the other, so that the two advance in turn.                             *)
LeadInv ==
  \A b \in Beats :
    Read(b) /\ iEngine.data[b] # sram[<<iEngine.base, b>>] =>
      dEngine.st = "REQ" /\ dEngine.write /\ (iEngine.st = "REQ" => Ahead)

(* How the engine of the instruction cache moves.                          *)
LEMMA FillMoves ==
  ASSUME TypeOK, BridgeInv,
         iEngine' = EngineNext(iEngine, IStart, Ack("I"), bridge["I"].val)
  PROVE  /\ iEngine.st = "IDLE" => iEngine' = IStart
         /\ iEngine.st = "DONE" =>
              iEngine'.st = "IDLE" /\ iEngine'.data = iEngine.data
                /\ iEngine'.base = iEngine.base
         /\ iEngine.st = "REQ" /\ ~Ack("I") => iEngine' = iEngine
         /\ iEngine.st = "REQ" /\ Ack("I") =>
              /\ iEngine'.base = iEngine.base
              /\ iEngine'.data = [iEngine.data EXCEPT ![iEngine.beat] = bridge["I"].val]
              /\ IF iEngine.beat = WORDS_PER_LINE - 1 THEN iEngine'.st = "DONE"
                 ELSE iEngine'.st = "REQ" /\ iEngine'.beat = iEngine.beat + 1
<1>1. iEngine \in Engine /\ ~iEngine.write
  BY DEF TypeOK, ITypeOK, BridgeInv
<1>2. CASE iEngine.st = "IDLE"
  BY <1>2 DEF EngineNext
<1>3. CASE iEngine.st = "DONE"
  <2>1. iEngine' = [iEngine EXCEPT !.st = "IDLE"]
    BY <1>3 DEF EngineNext
  <2> QED
    BY <1>1, <1>3, <2>1 DEF Engine
<1>4. CASE iEngine.st = "REQ" /\ Ack("I")
  <2> DEFINE got == [iEngine.data EXCEPT ![iEngine.beat] = bridge["I"].val]
  <2>1. iEngine' = IF iEngine.beat = WORDS_PER_LINE - 1
                     THEN [iEngine EXCEPT !.st = "DONE", !.data = got]
                   ELSE [iEngine EXCEPT !.beat = @ + 1, !.data = got]
    BY <1>1, <1>4 DEF EngineNext
  <2> HIDE DEF got
  <2>2. /\ iEngine'.base = iEngine.base /\ iEngine'.data = got
        /\ IF iEngine.beat = WORDS_PER_LINE - 1 THEN iEngine'.st = "DONE"
           ELSE iEngine'.st = "REQ" /\ iEngine'.beat = iEngine.beat + 1
    BY <1>1, <1>4, <2>1 DEF Engine
  <2> QED
    BY <1>4, <2>2 DEF got
<1>5. CASE iEngine.st = "REQ" /\ ~Ack("I")
  BY <1>5 DEF EngineNext
<1> QED
  BY <1>1, <1>2, <1>3, <1>4, <1>5 DEF Engine

(* The states of a fill.                                                   *)
LEMMA FillStates ==
  ASSUME TypeOK, NEW fetch \in Fetches, NEW plru, NEW taken,
         IClock(fetch, plru, InvAll, taken)
  PROVE  /\ iState \in {"IDLE", "MISS_FILL", "MISS_FINISH"}
         /\ iState = "IDLE" => iState' \in {"IDLE", "MISS_FILL"}
         /\ iState = "MISS_FILL" =>
              /\ iReq' = iReq
              /\ iState' = IF iEngine.st = "DONE" THEN "MISS_FINISH" ELSE "MISS_FILL"
         /\ iState = "MISS_FINISH" => iState' = "IDLE" /\ IMissFinish(InvAll)
  BY DEF TypeOK, ITypeOK, IClock, IAccept, IResolveHit, IResolveMiss, IRest, IMissFill,
     IMissFinish, IEngineDone

(* A cycle preserves FillInv.                                              *)
LEMMA FillStep ==
  ASSUME TypeOK, BridgeInv, FillInv, TurnInv, FabricClock(dEngine, iEngine),
         NEW fetch \in Fetches, NEW plru, NEW taken, IClock(fetch, plru, InvAll, taken)
  PROVE  FillInv'
<1>1. iEngine.st \in {"IDLE", "REQ", "DONE"} /\ "I" \in Masters
  BY FieldTypes DEF Engine, Masters
<1>2. /\ iEngine.st = "IDLE" => iEngine' = IStart
      /\ iEngine.st = "DONE" => iEngine'.st = "IDLE" /\ iEngine'.base = iEngine.base
      /\ iEngine.st = "REQ" => /\ iEngine'.st \in {"REQ", "DONE"}
                               /\ iEngine'.base = iEngine.base
  BY FillMoves DEF IClock
<1>3. /\ IStart.st # "IDLE" => iState = "MISS_FILL" /\ IStart.base = FetchLine
      /\ IStart.st = "IDLE" \/ iState = "MISS_FILL"
  BY DEF IStart, StartRead, NoEngine
<1>4. iReq' = iReq => FetchLine' = FetchLine
  BY DEF FetchLine, FetchWord
<1>5. /\ iState' = "IDLE" => iEngine'.st = "IDLE"
      /\ iState' = "MISS_FINISH" => iEngine'.st = "IDLE" /\ iEngine'.base = FetchLine'
      /\ iEngine'.st # "IDLE" => iEngine'.base = FetchLine'
  BY <1>1, <1>2, <1>3, <1>4, FillStates DEF FillInv
<1>6. ASSUME bridge'["I"].st = "READ_DATA"
      PROVE  sramPort'.val = sram'[bridge'["I"].word]
  <2>1. \/ AddrRead("I") /\ bridge'["I"].word = bridge["I"].word
        \/ /\ bridge["I"].st = "READ_DATA" /\ bridge'["I"] = bridge["I"]
           /\ ~DataRead("I")
    BY <1>1, <1>6, BridgeMoves DEF Goes
  <2>2. ~DataWritten("D")
    BY <1>1, <2>1 DEF AddrRead, DataWritten, Serves, BridgeInv
  <2>3. sram' = sram
    BY <2>2, SramChange
  <2>4. CASE AddrRead("I") /\ bridge'["I"].word = bridge["I"].word
    BY <1>1, <1>6, <2>3, <2>4, PortMoves
  <2>5. CASE bridge["I"].st = "READ_DATA" /\ bridge'["I"] = bridge["I"] /\ ~DataRead("I")
    <3>1. Serves("I", "READ")
      BY <1>1, <2>5 DEF BridgeInv
    <3>2. sramPort' = sramPort
      BY <1>1, <2>5, <3>1, PortMoves
    <3> QED
      BY <2>3, <2>5, <3>2 DEF FillInv
  <2> QED
    BY <2>1, <2>4, <2>5
<1>7. ASSUME bridge'["I"].st = "ACK"
      PROVE  bridge'["I"].val = sram'[bridge'["I"].word]
  <2>1. /\ bridge["I"].st = "READ_DATA" /\ bridge'["I"].word = bridge["I"].word
        /\ bridge'["I"].val = sramPort.val
    <3>1. ~WriteAnswered("I")
      BY <1>1 DEF BridgeInv, WriteAnswered, EngineOf, WriteStates
    <3> QED
      BY <1>1, <1>7, <3>1, BridgeMoves DEF Goes
  <2>2. ~DataWritten("D")
    BY <1>1, <2>1 DEF DataWritten, Serves, BridgeInv
  <2>3. sram' = sram
    BY <2>2, SramChange
  <2> QED
    BY <2>1, <2>3 DEF FillInv
<1> QED
  BY <1>5, <1>6, <1>7 DEF FillInv

(* The crossbar gives a transaction to a master that asks, and is idle     *)
(* again when it has ended.                                                *)
LEMMA XbarTurns ==
  ASSUME TypeOK, xbar' = XbarNext
  PROVE  /\ xbar'.st = "ADDR" =>
              \/ xbar' = xbar
              \/ xbar.st = "IDLE" /\ xbar'.owner \in Requesting
         /\ xbar'.st = "IDLE" =>
              \/ xbar' = xbar /\ Requesting = {}
              \/ \E m \in Masters : WriteAnswered(m) \/ DataRead(m)
         /\ \A m \in Masters : WriteAnswered(m) \/ DataRead(m) => xbar'.st = "IDLE"
<1>1. xbar \in [st : {"IDLE", "ADDR", "WRITE", "READ"}, owner : Masters,
                write : BOOLEAN, rr : Masters]
  BY DEF TypeOK, FabricTypeOK
<1> DEFINE Written == \E m \in Masters : AddrWritten(m)
           Asked == \E m \in Masters : AddrRead(m)
           Ended == \E m \in Masters : WriteAnswered(m) \/ DataRead(m)
<1>2. /\ Written \/ Asked => xbar.st = "ADDR" /\ ~Ended
      /\ Ended => xbar.st \in {"WRITE", "READ"}
      /\ ~(Written /\ Asked)
  BY DEF AddrWritten, AddrRead, WriteAnswered, DataRead, Serves
<1>3. CASE xbar.st = "IDLE" /\ Requesting # {}
  <2> DEFINE m == IF Requesting = Masters THEN xbar.rr ELSE CHOOSE m \in Requesting : TRUE
  <2>1. xbar' = [xbar EXCEPT !.st = "ADDR", !.owner = m,
                             !.write = bridge[m].st = "WRITE_ADDR"]
    BY <1>2, <1>3 DEF XbarNext
  <2>2. m \in Requesting
    BY <1>1, <1>3
  <2> HIDE DEF m
  <2>3. xbar'.st = "ADDR" /\ xbar'.owner = m
    BY <1>1, <2>1
  <2> QED
    BY <1>2, <1>3, <2>2, <2>3
<1>4. CASE Written
  <2>1. xbar' = [xbar EXCEPT !.st = "WRITE"]
    BY <1>2, <1>4 DEF XbarNext
  <2> QED
    BY <1>1, <1>2, <1>4, <2>1
<1>5. CASE Asked
  <2>1. xbar' = [xbar EXCEPT !.st = "READ"]
    BY <1>2, <1>5 DEF XbarNext
  <2> QED
    BY <1>1, <1>2, <1>5, <2>1
<1>6. CASE Ended
  <2>1. xbar' = [xbar EXCEPT !.st = "IDLE", !.rr = Other(xbar.owner)]
    BY <1>2, <1>6 DEF XbarNext
  <2> QED
    BY <1>1, <1>6, <2>1
<1>7. CASE ~(xbar.st = "IDLE" /\ Requesting # {}) /\ ~Written /\ ~Asked /\ ~Ended
  <2>1. xbar' = xbar
    BY <1>7 DEF XbarNext
  <2> QED
    BY <1>7, <2>1
<1> QED
  BY <1>3, <1>4, <1>5, <1>6, <1>7

(* The bridge of the instruction cache while it is not served.             *)
LEMMA FillWaits ==
  ASSUME TypeOK, BridgeInv, FabricClock(dEngine, iEngine),
         iEngine' = EngineNext(iEngine, IStart, Ack("I"), bridge["I"].val),
         bridge["I"].st \in {"IDLE", "READ_ADDR"}, ~AddrRead("I")
  PROVE  /\ bridge'["I"].st \in {"IDLE", "READ_ADDR"}
         /\ iEngine.st = "REQ" \/ bridge["I"].st = "READ_ADDR" =>
              bridge'["I"].st = "READ_ADDR"
         /\ iEngine'.st # "DONE"
         /\ iEngine.st = "REQ" => iEngine' = iEngine
         /\ iEngine'.st = "REQ" /\ bridge'["I"].st = "IDLE" => iEngine'.beat = 0
<1>1. iEngine.st \in {"IDLE", "REQ", "DONE"} /\ "I" \in Masters
  BY FieldTypes DEF Engine, Masters
<1>2. ~Ack("I")
  BY DEF Ack
<1>3. /\ iEngine.st = "IDLE" => iEngine' = IStart
      /\ iEngine.st = "DONE" => iEngine'.st = "IDLE"
      /\ iEngine.st = "REQ" => iEngine' = iEngine
  BY <1>2, FillMoves
<1>4. /\ bridge'["I"].st \in {"IDLE", "READ_ADDR"}
      /\ bridge["I"].st = "READ_ADDR" => bridge'["I"].st = "READ_ADDR"
      /\ iEngine.st = "REQ" /\ bridge["I"].st = "IDLE" => bridge'["I"].st = "READ_ADDR"
  BY <1>1, BridgeMoves DEF BridgeInv, EngineOf, Goes
<1> QED
  BY <1>1, <1>3, <1>4, StartFacts

(* A cycle preserves TurnInv.                                              *)
LEMMA TurnStep ==
  ASSUME TypeOK, BridgeInv, TurnInv, FabricClock(dEngine, iEngine),
         dEngine' = EngineNext(dEngine, DStart, Ack("D"), bridge["D"].val),
         NEW fetch \in Fetches, NEW plru, NEW taken, IClock(fetch, plru, InvAll, taken)
  PROVE  TurnInv'
<1>1. /\ iEngine.st \in {"IDLE", "REQ", "DONE"} /\ dEngine.st \in {"IDLE", "REQ", "DONE"}
      /\ bridge["I"].st \in BridgeStates /\ "I" \in Masters /\ "D" \in Masters
      /\ xbar' = XbarNext
      /\ iEngine' = EngineNext(iEngine, IStart, Ack("I"), bridge["I"].val)
  BY FieldTypes DEF Engine, Masters, FabricClock, IClock
<1>2. Serves("D", "ADDR")' => bridge'["I"].st # "ACK"
  <2> SUFFICES ASSUME bridge'["I"].st = "ACK" PROVE xbar'.st # "ADDR"
    BY DEF Serves
  <2>1. DataRead("I") \/ WriteAnswered("I")
    BY <1>1, BridgeMoves DEF Goes
  <2> QED
    BY <1>1, <2>1, XbarTurns
<1>3. ASSUME DWrites'
      PROVE  /\ Serves("D", "ADDR") \/ (DWrites /\ bridge["D"].st # "ACK")
             /\ bridge'["D"].st # "WRITE_DATA" => DWrites /\ bridge["D"].st # "ACK"
  <2>1. bridge'["D"].st = "ACK" /\ dEngine'.write => bridge["D"].st = "WRITE_RESP"
    <3> SUFFICES ASSUME bridge'["D"].st = "ACK", dEngine'.write
                 PROVE  bridge["D"].st = "WRITE_RESP"
      OBVIOUS
    <3>1. bridge["D"].st \in {"WRITE_RESP", "READ_DATA"}
      BY <1>1, BridgeMoves DEF Goes
    <3>2. dEngine.st = "REQ" /\ (bridge["D"].st = "READ_DATA" => ~dEngine.write)
      BY <1>1, <3>1 DEF BridgeInv, EngineOf, ReadStates
    <3>3. dEngine'.write = dEngine.write
      BY <3>2, EngineMoves
    <3> QED
      BY <3>1, <3>2, <3>3
  <2>2. bridge'["D"].st = "WRITE_DATA" => AddrWritten("D") \/ bridge["D"].st = "WRITE_DATA"
    BY <1>1, BridgeMoves DEF Goes
  <2>3. bridge'["D"].st = "WRITE_RESP" => bridge["D"].st \in {"WRITE_DATA", "WRITE_RESP"}
    BY <1>1, BridgeMoves DEF Goes
  <2> QED
    BY <1>3, <2>1, <2>2, <2>3 DEF DWrites, AddrWritten
<1>4. ASSUME DWrites'
      PROVE  bridge["I"].st \in {"IDLE", "READ_ADDR"} /\ ~AddrRead("I")
  <2>1. CASE Serves("D", "ADDR")
    <3>1. bridge["I"].st # "ACK"
      BY <2>1 DEF TurnInv
    <3>2. bridge["I"].st \notin WriteStates /\ bridge["I"].st # "READ_DATA"
      BY <1>1, <2>1 DEF BridgeInv, Serves, EngineOf
    <3>3. ~AddrRead("I")
      BY <2>1 DEF AddrRead, Serves
    <3> QED
      BY <1>1, <3>1, <3>2, <3>3 DEF BridgeStates, WriteStates
  <2>2. CASE DWrites /\ bridge["D"].st # "ACK"
    <3>1. Serves("D", "WRITE")
      BY <1>1, <2>2 DEF DWrites, BridgeInv
    <3> QED
      BY <2>2, <3>1 DEF TurnInv, AddrRead, Serves
  <2> QED
    BY <1>3, <1>4, <2>1, <2>2
<1>5. ASSUME DWrites'
      PROVE  /\ iEngine'.st # "DONE" /\ bridge'["I"].st \in {"IDLE", "READ_ADDR"}
             /\ iEngine'.st = "REQ" /\ bridge'["I"].st = "IDLE" => iEngine'.beat = 0
  BY <1>1, <1>4, <1>5, FillWaits
<1>6. ASSUME DWrites', bridge'["D"].st # "WRITE_DATA"
      PROVE  iState' # "MISS_FINISH"
  <2>1. DWrites
    BY <1>3, <1>6
  <2> QED
    BY <2>1, FillStates DEF TurnInv
<1> QED
  BY <1>2, <1>5, <1>6 DEF TurnInv

(* An engine counts its words.                                             *)
LEMMA Beat ==
  ASSUME NEW e \in Engine, NEW start, NEW ack \in BOOLEAN, NEW rdata, NEW f,
         e.st = "REQ", f = EngineNext(e, start, ack, rdata)
  PROVE  /\ f.st = IF ack /\ e.beat = WORDS_PER_LINE - 1 THEN "DONE" ELSE "REQ"
         /\ f.write = e.write
         /\ f.st = "REQ" => f.beat = e.beat + (IF ack THEN 1 ELSE 0)
<1> DEFINE got == IF e.write THEN e.data ELSE [e.data EXCEPT ![e.beat] = rdata]
<1>1. e.beat \in Nat
  BY SizeFacts DEF Engine
<1>2. CASE ack
  <2>1. f = IF e.beat = WORDS_PER_LINE - 1
              THEN [e EXCEPT !.st = "DONE", !.data = got]
            ELSE [e EXCEPT !.beat = @ + 1, !.data = got]
    BY <1>2 DEF EngineNext
  <2> HIDE DEF got
  <2>2. /\ f.st = IF e.beat = WORDS_PER_LINE - 1 THEN "DONE" ELSE "REQ"
        /\ f.write = e.write
        /\ f.st = "REQ" => f.beat = e.beat + 1
    BY <1>1, <2>1 DEF Engine
  <2> QED
    BY <1>2, <2>2
<1>3. CASE ~ack
  <2>1. f = e
    BY <1>3 DEF EngineNext
  <2>2. e.beat + 0 = e.beat
    BY <1>1
  <2> QED
    BY <1>3, <2>1, <2>2
<1> QED
  BY <1>2, <1>3

(* A word is transferred by its handshake with the SRAM.                   *)
LEMMA TransferredMoves ==
  ASSUME TypeOK, BridgeInv, FabricClock(dEngine, iEngine), NEW m \in Masters,
         dEngine' = EngineNext(dEngine, DStart, Ack("D"), bridge["D"].val),
         iEngine' = EngineNext(iEngine, IStart, Ack("I"), bridge["I"].val),
         EngineOf(m).st = "REQ", EngineOf(m)'.st = "REQ"
  PROVE  /\ Transferred(m) \in Nat
         /\ Transferred(m)' =
              Transferred(m) + (IF AddrRead(m) \/ DataWritten(m) THEN 1 ELSE 0)
<1> DEFINE e == EngineOf(m)
           f == EngineOf(m)'
           p == bridge[m].st
           q == bridge'[m].st
<1>1. /\ e \in Engine /\ e.beat \in Nat /\ p \in BridgeStates /\ Ack(m) \in BOOLEAN
      /\ m \in {"D", "I"}
  <2>1. e \in Engine /\ m \in {"D", "I"}
    BY FieldTypes DEF EngineOf, Masters
  <2>2. e.beat \in Nat
    BY <2>1, SizeFacts DEF Engine
  <2> QED
    BY <2>1, <2>2, FieldTypes
<1>2. f.beat = e.beat + (IF p = "ACK" THEN 1 ELSE 0)
  <2> DEFINE start == IF m = "D" THEN DStart ELSE IStart
             rdata == bridge[m].val
  <2>1. f = EngineNext(e, start, Ack(m), rdata)
    BY <1>1 DEF EngineOf
  <2> HIDE DEF e, f, start, rdata
  <2>2. e.st = "REQ" /\ f.st = "REQ"
    BY DEF e, f
  <2>3. f.beat = e.beat + (IF Ack(m) THEN 1 ELSE 0)
    BY <1>1, <2>1, <2>2, Beat
  <2> QED
    BY <2>3 DEF Ack
<1>3. \/ p = "IDLE" /\ q \in {"IDLE", "WRITE_ADDR", "READ_ADDR"}
      \/ p = "WRITE_ADDR" /\ q = "WRITE_DATA"
      \/ DataWritten(m) /\ p = "WRITE_DATA" /\ q = "WRITE_RESP"
      \/ p = "WRITE_RESP" /\ q = "ACK"
      \/ AddrRead(m) /\ p = "READ_ADDR" /\ q = "READ_DATA"
      \/ p = "READ_DATA" /\ q = "ACK"
      \/ p = "ACK" /\ q = "IDLE"
      \/ p = q /\ p \notin {"IDLE", "ACK"} /\ ~AddrRead(m) /\ ~DataWritten(m)
  <2> HIDE DEF e, f
  <2> QED
    BY <1>1, BridgeMoves DEF Goes
<1>4. (AddrRead(m) => p = "READ_ADDR") /\ (DataWritten(m) => p = "WRITE_DATA")
  BY DEF AddrRead, DataWritten
<1>5. /\ Transferred(m) =
           e.beat + (IF p \in {"WRITE_RESP", "READ_DATA", "ACK"} THEN 1 ELSE 0)
      /\ Transferred(m)' =
           f.beat + (IF q \in {"WRITE_RESP", "READ_DATA", "ACK"} THEN 1 ELSE 0)
  BY DEF Transferred
<1> HIDE DEF e, f, p, q
<1> QED
  BY <1>1, <1>2, <1>3, <1>4, <1>5

(* A fill that is ahead of the write-back stays ahead, and one that has    *)
(* read the word being written gets ahead.                                 *)
LEMMA AheadStep ==
  ASSUME TypeOK, BridgeInv, TurnInv, FabricClock(dEngine, iEngine),
         dEngine' = EngineNext(dEngine, DStart, Ack("D"), bridge["D"].val),
         iEngine' = EngineNext(iEngine, IStart, Ack("I"), bridge["I"].val),
         dEngine.st = "REQ", dEngine.write, dEngine'.st = "REQ",
         iEngine.st = "REQ", iEngine'.st = "REQ",
         Ahead \/ (DataWritten("D") /\ Transferred("I") > Transferred("D"))
  PROVE  Ahead'
<1> DEFINE r == Transferred("I")
           w == Transferred("D")
           u == Transferred("I")'
           v == Transferred("D")'
<1>1. "I" \in Masters /\ "D" \in Masters /\ xbar' = XbarNext
  BY DEF Masters, FabricClock
<1>2. /\ ~DataWritten("I") /\ ~WriteAnswered("I") /\ ~AddrRead("D") /\ ~DataRead("D")
      /\ ~(AddrRead("I") /\ DataWritten("D"))
  BY <1>1 DEF BridgeInv, DataWritten, WriteAnswered, AddrRead, DataRead, EngineOf,
     WriteStates, ReadStates, Serves
<1>3. /\ r \in Nat /\ w \in Nat
      /\ u = r + (IF AddrRead("I") THEN 1 ELSE 0)
      /\ v = w + (IF DataWritten("D") THEN 1 ELSE 0)
  BY <1>1, <1>2, TransferredMoves DEF EngineOf
<1>4. CASE DataWritten("D")
  <2>1. bridge["D"].st = "WRITE_DATA" /\ Serves("D", "WRITE")
    BY <1>4 DEF DataWritten
  <2>2. r > w
    BY <1>3, <2>1 DEF Ahead
  <2>3. xbar' = xbar /\ xbar.st = "WRITE"
    BY <1>1, <2>1, XbarMoves DEF WriteAnswered, DataRead, Serves
  <2>4. bridge'["D"].st = "WRITE_RESP"
    BY <1>1, <1>4, <2>1, BridgeMoves DEF Goes
  <2>5. bridge'["I"].st \in {"IDLE", "READ_ADDR"}
    BY <1>2, <1>4, <2>1, FillWaits DEF TurnInv, DWrites
  <2>6. u >= v
    BY <1>2, <1>3, <1>4, <2>2
  <2> QED
    BY <2>3, <2>4, <2>5, <2>6 DEF Ahead, Serves
<1>5. CASE ~DataWritten("D")
  <2>1. Ahead
    BY <1>5
  <2>2. u >= v /\ (u = v => r = w /\ ~AddrRead("I"))
    BY <1>3, <1>5, <2>1 DEF Ahead
  <2> SUFFICES ASSUME r = w, ~AddrRead("I")
               PROVE  /\ ~Serves("D", "ADDR")' /\ bridge'["D"].st # "WRITE_DATA"
                      /\ bridge'["I"].st # "READ_DATA"
                      /\ xbar'.st = "IDLE" =>
                           bridge'["I"].st = "READ_ADDR" /\ bridge'["D"].st = "ACK"
    BY <2>2 DEF Ahead
  <2>3. /\ ~Serves("D", "ADDR") /\ bridge["D"].st # "WRITE_DATA"
        /\ bridge["I"].st # "READ_DATA"
        /\ xbar.st = "IDLE" => bridge["I"].st = "READ_ADDR" /\ bridge["D"].st = "ACK"
    BY <2>1 DEF Ahead
  <2>4. ~Serves("D", "ADDR")'
    <3> SUFFICES ASSUME xbar'.st = "ADDR", xbar'.owner = "D" PROVE FALSE
      BY DEF Serves
    <3>1. xbar.st = "IDLE" /\ xbar'.owner \in Requesting
      BY <1>1, <2>3, XbarTurns DEF Serves
    <3> QED
      BY <2>3, <3>1 DEF Requesting
  <2>5. bridge'["D"].st # "WRITE_DATA"
    BY <1>1, <2>3, BridgeMoves DEF Goes, AddrWritten
  <2>6. bridge'["I"].st # "READ_DATA"
    BY <1>1, <2>3, BridgeMoves DEF Goes
  <2>7. ASSUME xbar'.st = "IDLE"
        PROVE  bridge'["I"].st = "READ_ADDR" /\ bridge'["D"].st = "ACK"
    <3>1. WriteAnswered("D")
      <4>1. ~(xbar' = xbar /\ Requesting = {})
        BY <1>1, <2>3, <2>7 DEF Requesting
      <4>2. ~DataRead("I")
        BY <2>3 DEF DataRead
      <4> QED
        BY <1>1, <1>2, <2>7, <4>1, <4>2, XbarTurns DEF Masters
    <3>2. bridge["D"].st = "WRITE_RESP" /\ bridge'["D"].st = "ACK"
      BY <1>1, <3>1, BridgeMoves DEF WriteAnswered, Goes
    <3>3. /\ bridge["I"].st \in {"IDLE", "READ_ADDR"}
          /\ bridge["I"].st = "IDLE" => iEngine.beat = 0
      BY <3>2 DEF TurnInv, DWrites
    <3>4. bridge["I"].st # "IDLE"
      <4>1. dEngine.beat \in Nat
        BY FieldTypes, SizeFacts DEF Engine
      <4> QED
        BY <3>2, <3>3, <4>1 DEF Transferred, EngineOf
    <3> QED
      BY <3>2, <3>3, <3>4, FillWaits DEF AddrRead
  <2> QED
    BY <2>4, <2>5, <2>6, <2>7
<1> QED
  BY <1>4, <1>5

(* What a fill has read it keeps, and what it reads is in memory.          *)
LEMMA FillReads ==
  ASSUME TypeOK, BridgeInv, FillInv, NEW fetch \in Fetches, NEW plru, NEW taken,
         IClock(fetch, plru, InvAll, taken), NEW b \in Beats, Read(b)'
  PROVE  /\ iEngine.st # "IDLE" /\ iEngine'.base = iEngine.base
         /\ \/ Read(b) /\ iEngine'.data[b] = iEngine.data[b]
            \/ /\ bridge["I"].st = "ACK"
               /\ iEngine'.data[b] = sram[<<iEngine.base, b>>]
<1>1. /\ iEngine.st \in {"IDLE", "REQ", "DONE"} /\ iEngine.base \in Lines
      /\ iEngine.beat \in Beats /\ iEngine.data \in LineData
      /\ Beats \subseteq Nat /\ Beats = 0 .. WORDS_PER_LINE - 1
      /\ "I" \in Masters
      /\ iEngine' = EngineNext(iEngine, IStart, Ack("I"), bridge["I"].val)
      /\ WORDS_PER_LINE \in Nat
  <2>1. iEngine \in Engine
    BY FieldTypes
  <2>2. /\ iEngine.st \in {"IDLE", "REQ", "DONE"} /\ iEngine.base \in Lines
        /\ iEngine.beat \in Beats /\ iEngine.data \in LineData
    BY <2>1 DEF Engine
  <2> QED
    BY <2>2, SizeFacts DEF Masters, IClock
<1>2. /\ iEngine.st = "IDLE" => iEngine' = IStart
      /\ iEngine.st = "DONE" =>
           /\ iEngine'.st = "IDLE"
           /\ iEngine'.data = iEngine.data /\ iEngine'.base = iEngine.base
      /\ iEngine.st = "REQ" /\ ~Ack("I") => iEngine' = iEngine
      /\ iEngine.st = "REQ" /\ Ack("I") =>
           /\ iEngine'.base = iEngine.base
           /\ iEngine'.data = [iEngine.data EXCEPT ![iEngine.beat] = bridge["I"].val]
           /\ IF iEngine.beat = WORDS_PER_LINE - 1 THEN iEngine'.st = "DONE"
              ELSE iEngine'.st = "REQ" /\ iEngine'.beat = iEngine.beat + 1
  BY <1>1, FillMoves
<1>3. iEngine.st # "IDLE"
  <2> SUFFICES ASSUME iEngine.st = "IDLE" PROVE FALSE
    OBVIOUS
  <2>1. IStart.st \in {"IDLE", "REQ"} /\ (IStart.st = "REQ" => IStart.beat = 0)
    BY DEF IStart, StartRead, NoEngine
  <2>2. iState' # "MISS_FINISH"
    BY FillStates
  <2> QED
    BY <1>1, <1>2, <2>1, <2>2 DEF Read
<1>4. iEngine'.base = iEngine.base
  BY <1>1, <1>2, <1>3
<1>5. \/ Read(b) /\ iEngine'.data[b] = iEngine.data[b]
      \/ /\ bridge["I"].st = "ACK"
         /\ iEngine'.data[b] = sram[<<iEngine.base, b>>]
  <2>1. CASE iEngine.st = "DONE"
    BY <1>2, <2>1 DEF Read
  <2>2. CASE iEngine.st = "REQ" /\ ~Ack("I")
    <3>1. iState' # "MISS_FINISH"
      BY <2>2, FillStates DEF FillInv
    <3> QED
      BY <1>2, <2>2, <3>1 DEF Read
  <2>3. CASE iEngine.st = "REQ" /\ Ack("I")
    <3>1. iState' # "MISS_FINISH"
      BY <2>3, FillStates DEF FillInv
    <3>2. b < iEngine.beat \/ b = iEngine.beat
      BY <1>1, <1>2, <2>3, <3>1 DEF Read
    <3>3. CASE b < iEngine.beat
      BY <1>1, <1>2, <2>3, <3>3 DEF Read, LineData
    <3>4. CASE b = iEngine.beat
      <4>1. iEngine'.data[b] = bridge["I"].val
        BY <1>1, <1>2, <2>3, <3>4 DEF LineData
      <4>2. bridge["I"].st = "ACK" /\ bridge["I"].word = <<iEngine.base, b>>
        BY <1>1, <2>3, <3>4 DEF Ack, BridgeInv, EngineOf, EngineWord
      <4> QED
        BY <4>1, <4>2 DEF FillInv
    <3> QED
      BY <3>2, <3>3, <3>4
  <2> QED
    BY <1>1, <1>3, <2>1, <2>2, <2>3
<1> QED
  BY <1>3, <1>4, <1>5

(* A cycle preserves LeadInv.                                              *)
LEMMA LeadStep ==
  ASSUME TypeOK, BridgeInv, TurnInv, FillInv, LeadInv, FabricClock(dEngine, iEngine),
         dEngine' = EngineNext(dEngine, DStart, Ack("D"), bridge["D"].val),
         NEW fetch \in Fetches, NEW plru, NEW taken, IClock(fetch, plru, InvAll, taken)
  PROVE  LeadInv'
<1> SUFFICES ASSUME NEW b \in Beats, Read(b)',
                    iEngine'.data[b] # sram'[<<iEngine'.base, b>>]
             PROVE  /\ dEngine'.st = "REQ" /\ dEngine'.write
                    /\ iEngine'.st = "REQ" => Ahead'
  BY DEF LeadInv
<1>1. /\ iEngine \in Engine /\ dEngine \in Engine
      /\ iEngine.st \in {"IDLE", "REQ", "DONE"} /\ iEngine.base \in Lines
      /\ iEngine.beat \in Beats /\ dEngine.beat \in Beats /\ iEngine.data \in LineData
      /\ Beats \subseteq Nat /\ Beats = 0 .. WORDS_PER_LINE - 1
      /\ sram \in [Words -> WordValues] /\ "I" \in Masters /\ "D" \in Masters
      /\ iEngine' = EngineNext(iEngine, IStart, Ack("I"), bridge["I"].val)
      /\ WORDS_PER_LINE \in Nat
  <2>1. iEngine \in Engine /\ dEngine \in Engine
    BY FieldTypes
  <2>2. /\ iEngine.st \in {"IDLE", "REQ", "DONE"} /\ iEngine.base \in Lines
        /\ iEngine.beat \in Beats /\ dEngine.beat \in Beats /\ iEngine.data \in LineData
    BY <2>1 DEF Engine
  <2>3. Beats \subseteq Nat /\ Beats = 0 .. WORDS_PER_LINE - 1 /\ WORDS_PER_LINE \in Nat
    BY SizeFacts
  <2> QED
    BY <2>1, <2>2, <2>3 DEF TypeOK, FabricTypeOK, Masters, IClock
<1>3. iEngine.st # "IDLE" /\ iEngine'.base = iEngine.base
  BY FillReads
<1>5. Read(b) /\ iEngine'.data[b] = iEngine.data[b]
  <2> SUFFICES ASSUME bridge["I"].st = "ACK",
                      iEngine'.data[b] = sram[<<iEngine.base, b>>]
               PROVE  FALSE
    BY FillReads
  <2>1. ~DataWritten("D")
    BY DEF DataWritten, TurnInv, DWrites
  <2> QED
    BY <1>3, <2>1, SramChange
<1>6. /\ dEngine.st = "REQ" /\ dEngine.write
      /\ iEngine.st = "REQ" =>
           Ahead \/ (DataWritten("D") /\ Transferred("I") > Transferred("D"))
  <2>1. CASE iEngine.data[b] # sram[<<iEngine.base, b>>]
    BY <1>5, <2>1 DEF LeadInv
  <2>2. CASE iEngine.data[b] = sram[<<iEngine.base, b>>]
    <3>1. sram'[<<iEngine.base, b>>] # sram[<<iEngine.base, b>>]
      BY <1>3, <1>5, <2>2
    <3>2. DataWritten("D") /\ bridge["D"].word = <<iEngine.base, b>>
      BY <1>1, <3>1, SramChange DEF Words
    <3>3. /\ bridge["D"].st = "WRITE_DATA" /\ dEngine.st = "REQ" /\ dEngine.write
          /\ b = dEngine.beat
      BY <1>1, <3>2 DEF DataWritten, BridgeInv, EngineOf, EngineWord, WriteStates
    <3>4. iEngine.st # "DONE" /\ bridge["I"].st \in {"IDLE", "READ_ADDR"}
      BY <3>3 DEF TurnInv, DWrites
    <3>5. iEngine.st = "REQ" => Transferred("I") > Transferred("D")
      <4> HAVE iEngine.st = "REQ"
      <4>1. iState # "MISS_FINISH"
        BY DEF FillInv
      <4>2. b < iEngine.beat
        BY <1>5, <3>4, <4>1 DEF Read
      <4> QED
        BY <1>1, <3>3, <3>4, <4>2 DEF Transferred, EngineOf
    <3> QED
      BY <3>2, <3>3, <3>5
  <2> QED
    BY <2>1, <2>2
<1>7. dEngine'.st = "REQ" /\ dEngine'.write
  <2>1. /\ dEngine'.write = dEngine.write
        /\ dEngine'.st = IF Ack("D") /\ dEngine.beat = WORDS_PER_LINE - 1 THEN "DONE"
                         ELSE "REQ"
    <3> DEFINE rdata == bridge["D"].val
    <3>1. dEngine' = EngineNext(dEngine, DStart, Ack("D"), rdata) /\ Ack("D") \in BOOLEAN
      BY <1>1, FieldTypes
    <3> HIDE DEF rdata
    <3>2. dEngine \in Engine /\ dEngine.st = "REQ"
      BY <1>1, <1>6
    <3> QED
      BY <3>1, <3>2, Beat
  <2>2. ASSUME Ack("D"), dEngine.beat = WORDS_PER_LINE - 1
        PROVE  FALSE
    <3>1. /\ iEngine.st # "DONE" /\ bridge["I"].st \in {"IDLE", "READ_ADDR"}
          /\ iState # "MISS_FINISH" /\ ~DataWritten("D")
      BY <1>6, <2>2 DEF Ack, TurnInv, DWrites, DataWritten
    <3>2. Ahead
      BY <1>1, <1>3, <1>6, <3>1
    <3>3. /\ Transferred("I") = iEngine.beat /\ Transferred("D") = WORDS_PER_LINE
          /\ Transferred("I") >= Transferred("D")
      BY <1>1, <2>2, <3>1, <3>2 DEF Transferred, EngineOf, Ack, Ahead
    <3> QED
      BY <1>1, <3>3
  <2> QED
    BY <1>6, <2>1, <2>2
<1>8. iEngine'.st = "REQ" => iEngine.st = "REQ"
  BY <1>1, <1>3, FillMoves
<1> QED
  BY <1>1, <1>6, <1>7, <1>8, AheadStep

-----------------------------------------------------------------------------
(* What was read is a value that the word has had since the last FENCE.I:  *)
(* in memory, in the lines of the instruction cache (which are gone when a *)
(* FENCE.I commits), in the fill, and in the answer of a later fetch.      *)
FreshInv ==
  /\ \A w \in Words : sram[w] \in fresh[w] /\ Contents[w] \in fresh[w]
  /\ \A s \in ISets, w \in IWays :
       ILineAt(s, w).valid =>
         /\ coh # "DONE"
         /\ \A b \in Beats : ILineAt(s, w).data[b] \in fresh[<<ILineAt(s, w).line, b>>]
  /\ \A b \in Beats : Read(b) => iEngine.data[b] \in fresh[<<iEngine.base, b>>]
  /\ ~old => \A instr \in iHold.got : instr[2] \in fresh[instr[1]]
  /\ iHold.got # {} => iReq.valid

(* A clean data cache adds nothing to memory.                              *)
CleanRead ==
  TypeOK /\ LineInv /\ AllClean => \A w \in Words : Contents[w] = sram[w]

(* That is so because clean lines equal memory.                            *)
LEMMA CleanReadHolds == CleanRead
<1> SUFFICES ASSUME TypeOK, LineInv, AllClean, NEW n \in Lines, NEW b \in Beats
             PROVE  Contents[<<n, b>>] = sram[<<n, b>>]
  BY DEF CleanRead, Words
<1>1. CASE \A s \in Sets, w \in Ways : ~Holds(s, w, n)
  BY <1>1, ContentsReadHolds DEF ContentsRead
<1>2. ASSUME NEW s \in Sets, NEW w \in Ways, Holds(s, w, n)
      PROVE  Contents[<<n, b>>] = sram[<<n, b>>]
  <2>1. Contents[<<n, b>>] = LineAt(s, w).data[b]
    BY <1>2, ContentsReadHolds DEF ContentsRead
  <2>2. LineAt(s, w).valid /\ ~LineAt(s, w).dirty /\ LineAt(s, w).line = n
    BY <1>2 DEF Holds, AllClean, Dirty
  <2>3. SameData(LineAt(s, w).line, LineAt(s, w).data)
    BY <2>2 DEF LineInv
  <2> QED
    BY <2>1, <2>2, <2>3 DEF SameData
<1> QED
  BY <1>1, <1>2

(* The engine of the data cache writes a line that the cache holds dirty.  *)
WritesDirty ==
  TypeOK /\ ControlInv /\ EngineInv /\ MissInv /\ dEngine.st = "REQ" /\ dEngine.write =>
    \E s \in Sets, w \in Ways :
      /\ Dirty(s, w) /\ LineAt(s, w).line = dEngine.base
      /\ LineAt(s, w).data = dEngine.data

(* It is the victim of a miss or the line of the walk.                     *)
LEMMA WritesDirtyHolds == WritesDirty
<1> SUFFICES ASSUME TypeOK, ControlInv, EngineInv, MissInv,
                    dEngine.st = "REQ", dEngine.write
             PROVE  \E s \in Sets, w \in Ways :
                      /\ Dirty(s, w) /\ LineAt(s, w).line = dEngine.base
                      /\ LineAt(s, w).data = dEngine.data
  BY DEF WritesDirty
<1>1. dState \in {"MISS_WB", "FLUSH_WB"}
  BY DEF EngineInv, TypeOK, DTypeOK, DStates
<1>2. CASE dState = "MISS_WB"
  BY <1>2, FieldTypes DEF EngineInv, MissInv, ControlInv, MissStates, Dirty
<1>3. CASE dState = "FLUSH_WB"
  BY <1>3, FieldTypes DEF EngineInv, MissInv, WalkDirty, WalkLine, Dirty
<1> QED
  BY <1>1, <1>2, <1>3

(* What is written to memory is what the program reads in the word.        *)
LEMMA WrittenValue ==
  ASSUME CacheInv, FabricClock(dEngine, iEngine), NEW word \in Words
  PROVE  sram'[word] \in {sram[word], Contents[word]}
<1>1. /\ sram \in [Words -> WordValues] /\ dEngine.base \in Lines /\ dEngine.beat \in Beats
      /\ "D" \in Masters /\ TypeOK
  BY FieldTypes DEF CacheInv, FenceInv, TypeOK, FabricTypeOK, Engine, Masters
<1>2. CASE DataWritten("D")
  <2>1. /\ dEngine.st = "REQ" /\ dEngine.write
        /\ bridge["D"].word = <<dEngine.base, dEngine.beat>>
        /\ bridge["D"].val = dEngine.data[dEngine.beat]
    BY <1>1, <1>2
       DEF CacheInv, BridgeInv, DataWritten, EngineOf, EngineWord, WriteStates
  <2>2. PICK s \in Sets, w \in Ways : /\ Dirty(s, w) /\ LineAt(s, w).line = dEngine.base
                                      /\ LineAt(s, w).data = dEngine.data
    BY <1>1, <2>1, WritesDirtyHolds DEF WritesDirty, CacheInv, FenceInv
  <2>3. Contents[bridge["D"].word] = bridge["D"].val
    BY <1>1, <2>1, <2>2, ContentsReadHolds DEF ContentsRead, CacheInv, Holds, Dirty
  <2>4. sram' = [sram EXCEPT ![bridge["D"].word] = bridge["D"].val]
    BY <1>1, <1>2, SramChange DEF CacheInv
  <2> QED
    BY <1>1, <2>3, <2>4
<1>3. CASE ~DataWritten("D")
  BY <1>1, <1>3, SramChange DEF CacheInv
<1> QED
  BY <1>2, <1>3

(* A line of the instruction cache survives no invalidation and comes from *)
(* a fill.                                                                 *)
LEMMA FetchLines ==
  ASSUME TypeOK, CrossInv, NEW fetch, NEW plru, NEW taken,
         IClock(fetch, plru, InvAll, taken),
         NEW s \in ISets, NEW w \in IWays, ILineAt(s, w)'.valid
  PROVE  /\ ~InvAll
         /\ \/ ILineAt(s, w)' = ILineAt(s, w)
            \/ /\ iState = "MISS_FINISH" /\ ILineAt(s, w)'.line = FetchLine
               /\ ILineAt(s, w)'.data = iEngine.data
<1>1. iLines \in [ISets \X IWays -> ILine] /\ <<s, w>> \in ISets \X IWays
  BY DEF TypeOK, ITypeOK
<1>2. CASE InvAll
  <2>1. iLines' = [p \in ISets \X IWays |-> NoILine]
    BY <1>2 DEF IClock, IAccept, IResolveHit, IResolveMiss, IRest, IMissFill, IMissFinish,
       ILinesAfter
  <2> QED
    BY <1>1, <2>1 DEF ILineAt, NoILine
<1>3. CASE ~InvAll /\ iState # "MISS_FINISH"
  <2>1. iLines' = iLines
    BY <1>3 DEF IClock, IAccept, IResolveHit, IResolveMiss, IRest, IMissFill, IMissFinish,
       ILinesAfter
  <2> QED
    BY <1>3, <2>1 DEF ILineAt
<1>4. CASE ~InvAll /\ iState = "MISS_FINISH"
  <2>1. iLines' = [iLines EXCEPT ![<<FetchSet, iWay>>] =
                     [valid |-> TRUE, line |-> FetchLine, data |-> iEngine.data]]
    BY <1>4 DEF IClock, IAccept, IResolveHit, IResolveMiss, IRest, IMissFill, IMissFinish,
       ILinesAfter
  <2> QED
    BY <1>1, <1>4, <2>1 DEF ILineAt
<1> QED
  BY <1>2, <1>3, <1>4

(* What the answer to a fetch is made of.                                  *)
LEMMA FetchGets ==
  ASSUME TypeOK, CrossInv, FetchInv, NEW fetch \in Fetches, NEW plru, NEW taken,
         IClock(fetch, plru, InvAll, taken)
  PROVE  /\ \/ /\ iHold'.got = iHold.got
               /\ iReq.valid => iReq'.valid
               /\ ~(iHold.valid /\ taken)
            \/ iHold'.got = {}
            \/ \E data : /\ iHold'.got = iHold.got \cup {<<FetchWord, data[FetchWord[2]]>>}
                         /\ iReq'.valid /\ iReq.valid /\ ~iHold.valid
                         /\ \/ \E s \in ISets, w \in IWays :
                                 /\ ILineAt(s, w).valid /\ ILineAt(s, w).line = FetchLine
                                 /\ data = ILineAt(s, w).data
                            \/ iState = "MISS_FINISH" /\ data = iEngine.data
<1>1. /\ iReq \in [valid : BOOLEAN, word : Words, part : Parts]
      /\ iHold \in [valid : BOOLEAN, got : SUBSET (Words \X WordValues)]
      /\ iHold.valid \in BOOLEAN /\ iPending \in BOOLEAN
  BY DEF TypeOK, ITypeOK
<1>2. ASSUME NEW data, IGet(data)
      PROVE  /\ iHold'.got = iHold.got \cup {<<FetchWord, data[FetchWord[2]]>>}
             /\ iReq'.valid = iReq.valid
  BY <1>1, <1>2 DEF IGet
<1>3. CASE IAccept(fetch, InvAll)
  <2>1. fetch.valid /\ IReady(InvAll)
    BY <1>3, FetchOffers DEF IAccept
  <2> QED
    BY <1>1, <1>3, <2>1 DEF IAccept, IReady
<1>4. CASE IResolveHit(fetch, InvAll)
  <2> DEFINE w == Min(IHitWays)
  <2>1. w \in IHitWays /\ IHitWays \subseteq IWays /\ FetchSet \in ISets
    BY <1>4, FetchTypes DEF IResolveHit
  <2>2. IGet(ILineAt(FetchSet, w).data) /\ iPending
    BY <1>4 DEF IResolveHit
  <2> HIDE DEF w
  <2>3. w \in IWays /\ ILineAt(FetchSet, w).valid /\ ILineAt(FetchSet, w).line = FetchLine
    BY <2>1 DEF IHitWays
  <2>4. iReq.valid /\ ~iHold.valid
    BY <1>1, <2>2 DEF FetchInv
  <2> QED
    BY <1>2, <2>1, <2>2, <2>3, <2>4
<1>5. CASE IResolveMiss(fetch, plru, InvAll)
  BY <1>1, <1>5 DEF IResolveMiss, FetchInv
<1>6. CASE IRest(fetch, InvAll, taken)
  BY <1>1, <1>6 DEF IRest, IHoldAfter, IReqAfter, NoInstrs
<1>7. CASE IMissFill(InvAll)
  BY <1>1, <1>7 DEF IMissFill, FetchInv
<1>8. CASE IMissFinish(InvAll)
  <2>1. iState = "MISS_FINISH" /\ IGet(iEngine.data)
    BY <1>8 DEF IMissFinish
  <2>2. iReq.valid /\ ~iHold.valid
    BY <1>1, <2>1 DEF FetchInv
  <2> QED
    BY <1>2, <2>1, <2>2
<1> QED
  BY <1>3, <1>4, <1>5, <1>6, <1>7, <1>8 DEF IClock

(* A cycle preserves FreshInv.                                             *)
LEMMA FreshStep ==
  ASSUME CacheInv, CacheInv', FillInv, FillInv', LeadInv', FreshInv,
         NEW access \in Offers, NEW fetch \in Fetches, NEW dPlru \in Ways,
         NEW iPlru \in IWays, NEW taken \in BOOLEAN,
         Cycle(access, fetch, dPlru, iPlru, taken)
  PROVE  FreshInv'
<1>1. /\ FabricClock(dEngine, iEngine) /\ IClock(fetch, iPlru, InvAll, taken)
      /\ iEngine' = EngineNext(iEngine, IStart, Ack("I"), bridge["I"].val)
      /\ CohClock
      /\ \A w \in Words :
           fresh'[w] = (IF FenceCommits THEN {} ELSE fresh[w]) \cup {Contents'[w]}
      /\ old' = IF FenceCommits THEN iReq.valid /\ ~(iHold.valid /\ taken)
                ELSE old /\ iReq'.valid
  BY DEF Cycle, IClock
<1>2. /\ TypeOK /\ CrossInv /\ BridgeInv /\ FetchInv /\ LineInv
      /\ TypeOK' /\ BridgeInv' /\ LineInv' /\ FetchInv'
  BY DEF CacheInv, FenceInv
<1>3. ASSUME NEW s \in ISets, NEW w \in IWays, ILineAt(s, w)'.valid
      PROVE  coh' # "DONE" /\ ~FenceCommits
  BY <1>1, <1>2, <1>3, FetchLines DEF InvAll, CohClock, FenceCommits, CohDone
<1>4. iHold'.got # {} => iReq'.valid
  BY <1>1, <1>2, FetchGets DEF FreshInv
<1>5. CASE FenceCommits
  <2>1. coh = "DONE" /\ coh' = "DONE" /\ AllClean'
    <3>1. coh' = "DONE"
      BY <1>1, <1>5 DEF FenceCommits, CohDone, CohClock
    <3> QED
      BY <1>5, <3>1 DEF FenceCommits, CohDone, CacheInv, FenceInv, WalkInv
  <2>2. \A w \in Words : Contents'[w] = sram'[w]
    <3>1. CleanRead'
      BY CleanReadHolds, PTL
    <3> QED
      BY <1>2, <2>1, <3>1 DEF CleanRead
  <2>3. \A w \in Words : fresh'[w] = {sram'[w]}
    BY <1>1, <1>5, <2>2
  <2>4. ASSUME NEW b \in Beats, Read(b)'
        PROVE  iEngine'.data[b] \in fresh'[<<iEngine'.base, b>>]
    <3>1. ~(dEngine'.st = "REQ" /\ dEngine'.write)
      <4>1. WritesDirty'
        BY WritesDirtyHolds, PTL
      <4> QED
        BY <2>1, <4>1 DEF WritesDirty, CacheInv, FenceInv, AllClean
    <3>2. iEngine'.data[b] = sram'[<<iEngine'.base, b>>]
      BY <2>4, <3>1 DEF LeadInv
    <3>3. <<iEngine'.base, b>> \in Words
      BY <1>2 DEF TypeOK, ITypeOK, Engine, Words
    <3> QED
      BY <2>3, <3>2, <3>3
  <2>5. ~old' => iHold'.got = {}
    <3> SUFFICES ASSUME ~old' PROVE iHold'.got = {}
      OBVIOUS
    <3>1. ~iReq.valid \/ (iHold.valid /\ taken)
      BY <1>1, <1>5
    <3>2. iState = "IDLE" /\ ~iPending /\ ~fetch.valid
      <4>1. ~IReady(InvAll)
        BY <2>1 DEF IReady, InvAll
      <4> QED
        BY <1>2, <3>1, <4>1, FetchOffers DEF FetchInv
    <3>3. IRest(fetch, InvAll, taken)
      BY <1>1, <3>2 DEF IClock, IAccept, IResolveHit, IResolveMiss, IMissFill, IMissFinish
    <3> QED
      BY <3>1, <3>3 DEF IRest, IHoldAfter, NoInstrs, FreshInv
  <2> QED
    BY <1>3, <1>4, <1>5, <2>2, <2>3, <2>4, <2>5 DEF FreshInv
<1>6. CASE ~FenceCommits
  <2>1. \A w \in Words : fresh[w] \subseteq fresh'[w] /\ Contents'[w] \in fresh'[w]
    BY <1>1, <1>6
  <2>2. \A w \in Words : sram'[w] \in fresh'[w]
    BY <1>1, <2>1, WrittenValue DEF FreshInv
  <2>3. /\ FetchLine \in Lines /\ FetchWord = <<FetchLine, FetchWord[2]>>
        /\ FetchWord[2] \in Beats /\ iEngine \in Engine
        /\ \A s \in ISets, w \in IWays : ILineAt(s, w) \in ILine
    <3>1. FetchWord \in Words
      BY <1>2, FetchTypes
    <3> QED
      BY <1>2, <3>1, FetchTypes, FieldTypes DEF FetchLine, Words
  <2>4. ASSUME iState = "MISS_FINISH", NEW b \in Beats
        PROVE  iEngine.data[b] \in fresh[<<FetchLine, b>>]
    BY <2>4 DEF FreshInv, Read, FillInv
  <2>5. ASSUME NEW s \in ISets, NEW w \in IWays, ILineAt(s, w)'.valid, NEW b \in Beats
        PROVE  ILineAt(s, w)'.data[b] \in fresh'[<<ILineAt(s, w)'.line, b>>]
    <3>1. CASE ILineAt(s, w)' = ILineAt(s, w)
      <4>1. ILineAt(s, w).data[b] \in fresh[<<ILineAt(s, w).line, b>>]
        BY <2>5, <3>1 DEF FreshInv
      <4>2. <<ILineAt(s, w).line, b>> \in Words
        BY <2>3 DEF ILine, Words
      <4> QED
        BY <2>1, <3>1, <4>1, <4>2
    <3>2. CASE /\ iState = "MISS_FINISH" /\ ILineAt(s, w)'.line = FetchLine
               /\ ILineAt(s, w)'.data = iEngine.data
      <4>1. <<FetchLine, b>> \in Words
        BY <2>3 DEF Words
      <4> QED
        BY <2>1, <2>4, <3>2, <4>1
    <3> QED
      BY <1>1, <1>2, <2>5, <3>1, <3>2, FetchLines
  <2>6. ASSUME NEW b \in Beats, Read(b)'
        PROVE  iEngine'.data[b] \in fresh'[<<iEngine'.base, b>>]
    <3>1. <<iEngine.base, b>> \in Words
      BY <2>3 DEF Engine, Words
    <3>2. \/ Read(b) /\ iEngine'.data[b] = iEngine.data[b]
          \/ iEngine'.data[b] = sram[<<iEngine.base, b>>]
      BY <1>1, <1>2, <2>6, FillReads
    <3>3. iEngine'.base = iEngine.base
      BY <1>1, <1>2, <2>6, FillReads
    <3>4. iEngine'.data[b] \in fresh[<<iEngine.base, b>>]
      BY <3>1, <3>2 DEF FreshInv
    <3> QED
      BY <2>1, <3>1, <3>3, <3>4
  <2>7. ASSUME ~old', NEW instr \in iHold'.got
        PROVE  instr[2] \in fresh'[instr[1]]
    <3>1. ~old
      BY <1>1, <1>4, <1>6, <2>7
    <3>2. iHold.got \subseteq Words \X WordValues
      BY <1>2 DEF TypeOK, ITypeOK
    <3>3. ASSUME NEW i \in iHold.got
          PROVE  i[2] \in fresh'[i[1]]
      BY <2>1, <3>1, <3>2 DEF FreshInv
    <3>4. CASE instr \in iHold.got
      BY <3>3, <3>4
    <3>5. CASE instr \notin iHold.got
      <4>1. PICK data :
              /\ instr = <<FetchWord, data[FetchWord[2]]>>
              /\ \/ \E s \in ISets, w \in IWays :
                      /\ ILineAt(s, w).valid /\ ILineAt(s, w).line = FetchLine
                      /\ data = ILineAt(s, w).data
                 \/ iState = "MISS_FINISH" /\ data = iEngine.data
        BY <1>1, <1>2, <2>7, <3>5, FetchGets
      <4>2. data[FetchWord[2]] \in fresh[FetchWord]
        BY <2>3, <2>4, <4>1 DEF FreshInv
      <4>3. FetchWord \in Words
        BY <1>2, FetchTypes
      <4> QED
        BY <2>1, <4>1, <4>2, <4>3
    <3> QED
      BY <3>4, <3>5
  <2> QED
    BY <1>3, <1>4, <2>1, <2>2, <2>5, <2>6, <2>7 DEF FreshInv
<1> QED
  BY <1>5, <1>6

(* The invariant of the FENCE.I protocol over both caches.                 *)
SeesInv == CacheInv /\ FillInv /\ TurnInv /\ LeadInv /\ FreshInv

(* It holds at reset,                                                      *)
LEMMA SeesInvInit == Init => SeesInv
<1> SUFFICES ASSUME Init PROVE SeesInv
  OBVIOUS
<1>1. CacheInv
  BY CacheInvInit
<1>2. FillInv /\ TurnInv /\ LeadInv
  BY DEF Init, FabricInit, DInit, IInit, FillInv, TurnInv, LeadInv, DWrites, Read, NoBridge,
     NoEngine, Masters, Serves
<1>3. FreshInv
  <2>1. \A w \in Words : sram[w] = 0 /\ fresh[w] = {0}
    BY DEF Init, FabricInit
  <2>2. AllClean
    BY DEF Init, DInit, AllClean, Dirty, LineAt, NoLine
  <2>3. \A w \in Words : Contents[w] = sram[w]
    BY <1>1, <2>2, CleanReadHolds DEF CleanRead, CacheInv, FenceInv
  <2> QED
    BY <2>1, <2>3 DEF Init, IInit, FreshInv, Read, NoEngine, NoInstrs, ILineAt, NoILine
<1> QED
  BY <1>1, <1>2, <1>3 DEF SeesInv

(* every cycle preserves it,                                               *)
LEMMA SeesInvStep == SeesInv /\ [Next]_vars => SeesInv'
<1> SUFFICES ASSUME SeesInv, [Next]_vars PROVE SeesInv'
  OBVIOUS
<1>0. CacheInv'
  BY CacheInvStep DEF SeesInv
<1>1. CASE Next
  <2>1. PICK access \in Offers, fetch \in Fetches, dPlru \in Ways, iPlru \in IWays,
             taken \in BOOLEAN : Cycle(access, fetch, dPlru, iPlru, taken)
    BY <1>1 DEF Next
  <2>2. /\ FabricClock(dEngine, iEngine) /\ IClock(fetch, iPlru, InvAll, taken)
        /\ dEngine' = EngineNext(dEngine, DStart, Ack("D"), bridge["D"].val)
        /\ TypeOK /\ BridgeInv
    BY <2>1 DEF Cycle, DClock, SeesInv, CacheInv, FenceInv
  <2>3. FillInv' /\ TurnInv' /\ LeadInv'
    BY <2>2, FillStep, TurnStep, LeadStep DEF SeesInv
  <2>4. FreshInv'
    BY <1>0, <2>1, <2>3, FreshStep DEF SeesInv
  <2> QED
    BY <1>0, <2>3, <2>4 DEF SeesInv
<1>2. CASE UNCHANGED vars
  <2> USE <1>2 DEF vars, dVars, iVars, fabricVars
  <2>1. FillInv' /\ TurnInv'
    BY DEF SeesInv, FillInv, TurnInv, DWrites, FetchLine, FetchWord, Serves
  <2>2. LeadInv'
    BY DEF SeesInv, LeadInv, Read, Ahead, Transferred, EngineOf, Serves
  <2>3. Contents' = Contents
    BY DEF Contents, Holding, LineAt
  <2>4. FreshInv'
    BY <2>3 DEF SeesInv, FreshInv, Read, ILineAt
  <2> QED
    BY <1>0, <2>1, <2>2, <2>4 DEF SeesInv
<1> QED
  BY <1>1, <1>2

(* A fetch that is made after a FENCE.I returns only values that its word  *)
(* has had since: no store before the fence is missed, although the fence  *)
(* does not wait for a fill of the instruction cache that is under way.    *)
THEOREM FetchSeesStoresBeforeFence == Spec => []FetchesSeeFence
<1>1. SeesInv => FetchesSeeFence
  BY DEF SeesInv, FreshInv, FetchesSeeFence
<1> QED
  BY <1>1, SeesInvInit, SeesInvStep, PTL DEF Spec

=============================================================================
