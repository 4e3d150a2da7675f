--------------------------- MODULE CommandsProofs ---------------------------
(***************************************************************************)
(* Proofs about Commands, for any number of commands and aggregates.        *)
(***************************************************************************)
EXTENDS Commands, FiniteSetTheorems, TLAPS

-----------------------------------------------------------------------------
(* The inductive invariant *)

\* What is true of a reply, as far as one command knows.
Truthful(c) ==
    /\ ToldAs(c, {400, 404, 409}, ErrorType \ {"UNEXPECTED"}) => Written(c) = {}
    /\ op[c] # "read" /\ reply[c].kind \in {"done", "shown"} => Written(c) # {}
    /\ reply[c].kind = "shown" =>
        /\ reply[c].version + 1 \in DOMAIN versions[id[c]]
        /\ versions[id[c]][reply[c].version + 1] = reply[c].writer
        /\ \A v \in Written(c) : reply[c].version + 1 >= v

\* A command writes the version after the one it has loaded, in its one moment
\* between saving and reading back or being told.
InOrder(c) ==
    /\ Written(c) \subseteq {loaded[c] + 1}
    /\ place[c] \in {"idle", "loading", "saving"} => Written(c) = {}
    /\ op[c] = "read" => Written(c) = {} /\ place[c] \notin {"loading", "saving"}
    /\ place[c] = "reading" /\ op[c] # "read" => Written(c) # {}
    /\ place[c] # "told" => reply[c] = NoReply

IInv ==
    /\ TypeOK
    /\ loaded \in [Commands -> Nat]
    /\ reply = [c \in Commands |-> reply[c]]
    /\ \A c \in Commands : InOrder(c) /\ Truthful(c)

LEMMA InitIInv == Init => IInv
<1> SUFFICES ASSUME Init PROVE IInv
  OBVIOUS
<1>1. versions \in [Ids -> Seq(Commands \cup {Earlier})]
  <2>1. Earlier \in Commands \cup {Earlier}
    OBVIOUS
  <2>2. <<Earlier>> \in Seq(Commands \cup {Earlier}) /\ <<>> \in Seq(Commands \cup {Earlier})
    BY <2>1
  <2> QED BY <2>2 DEF Init
<1>2. TypeOK /\ loaded \in [Commands -> Nat] /\ reply = [c \in Commands |-> reply[c]]
  <2>1. \A i \in Ids : versions[i] = <<>> \/ versions[i] = <<Earlier>>
    BY DEF Init
  <2>2. \A c \in Commands : 0 \in 0 .. Len(versions[id[c]])
    BY <1>1 DEF Init
  <2> QED BY <1>1, <2>2 DEF Init, TypeOK, Places, NoReply
<1>3. ASSUME NEW c \in Commands PROVE Written(c) = {}
  <2>1. id[c] \in Ids /\ (versions[id[c]] = <<>> \/ versions[id[c]] = <<Earlier>>)
    BY DEF Init
  <2> QED BY <2>1, CommandsAssumption DEF Written
<1>4. ASSUME NEW c \in Commands PROVE InOrder(c) /\ Truthful(c)
  BY <1>3 DEF Init, InOrder, Truthful, ToldAs, NoReply
<1> QED BY <1>2, <1>4 DEF IInv

-----------------------------------------------------------------------------
(* What a step does *)

\* The change that a step of c may make to the database.
Effect(c) ==
    \/ UNCHANGED versions
    \/ place[c] = "saving" /\ Len(versions[id[c]]) = loaded[c] /\ Write(c)

\* A step is one command's, and the others notice it in the database alone.
LEMMA StepShape ==
    ASSUME IInv, NEW c \in Commands, Step(c)
    PROVE  /\ UNCHANGED <<op, id, surface>>
           /\ Effect(c)
           /\ \E p \in Places : place' = [place EXCEPT ![c] = p]
           /\ \E n \in Nat : loaded' = [loaded EXCEPT ![c] = n]
           /\ \E r : reply' = [reply EXCEPT ![c] = r]
<1> USE DEF Move, Tell, Places
<1>1. /\ loaded = [loaded EXCEPT ![c] = loaded[c]] /\ loaded[c] \in Nat
      /\ reply = [reply EXCEPT ![c] = reply[c]]
      /\ Len(versions[id[c]]) \in Nat
  BY DEF IInv, TypeOK
<1>2. CASE Receive(c) BY <1>1, <1>2 DEF Receive, Effect
<1>3. CASE Load(c) BY <1>1, <1>3 DEF Load, Effect
<1>4. CASE Save(c) BY <1>1, <1>4 DEF Save, Succeed, Effect
<1>5. CASE Rejected(c) BY <1>1, <1>5 DEF Rejected, Effect
<1>6. CASE Breaks(c) BY <1>1, <1>6 DEF Breaks, Interrupted, MayApply, Effect
<1>7. CASE Read(c) BY <1>1, <1>7 DEF Read, Effect
<1>8. CASE CutOff(c) BY <1>1, <1>8 DEF CutOff, Interrupted, MayApply, Effect
<1> QED BY <1>2, <1>3, <1>4, <1>5, <1>6, <1>7, <1>8 DEF Step

\* A write adds one entry to the history of its aggregate, and the entry is
\* nobody's but the writer's.
LEMMA WriteAdds ==
    ASSUME IInv, NEW c \in Commands, UNCHANGED id,
           Len(versions[id[c]]) = loaded[c], Write(c)
    PROVE  /\ versions' \in [Ids -> Seq(Commands \cup {Earlier})]
           /\ \A d \in Commands :
                /\ DOMAIN versions[id[d]] \subseteq DOMAIN versions'[id[d]]
                /\ Len(versions'[id[d]]) >= Len(versions[id[d]])
                /\ \A v \in DOMAIN versions[id[d]] : versions'[id[d]][v] = versions[id[d]][v]
           /\ \A d \in Commands \ {c} : Written(d)' = Written(d)
           /\ Written(c)' = Written(c) \cup {loaded[c] + 1}
<1>0. versions \in [Ids -> Seq(Commands \cup {Earlier})] /\ id \in [Commands -> Ids]
  BY DEF IInv, TypeOK
<1> DEFINE s == versions[id[c]]
           t == Append(s, c)
<1>1. /\ s \in Seq(Commands \cup {Earlier}) /\ t \in Seq(Commands \cup {Earlier})
      /\ DOMAIN s = 1 .. Len(s) /\ Len(s) \in Nat
      /\ DOMAIN t = 1 .. Len(s) + 1 /\ Len(t) = Len(s) + 1
      /\ \A v \in 1 .. Len(s) : t[v] = s[v]
      /\ t[Len(s) + 1] = c
  BY <1>0
<1>2. versions' = [versions EXCEPT ![id[c]] = t]
  BY DEF Write
<1>3. \A d \in Commands : Len(versions[id[d]]) \in Nat
  BY <1>0
<1> HIDE DEF t
<1>4. versions' \in [Ids -> Seq(Commands \cup {Earlier})]
  BY <1>0, <1>1, <1>2
<1>5. \A d \in Commands :
          versions'[id[d]] = IF id[d] = id[c] THEN t ELSE versions[id[d]]
  BY <1>0, <1>2
<1>6. \A v : v \in DOMAIN t <=> v \in DOMAIN s \/ v = Len(s) + 1
  BY <1>1
<1>7. \A v \in DOMAIN s : t[v] = s[v]
  BY <1>1
<1>8. ASSUME NEW d \in Commands \ {c} PROVE Written(d)' = Written(d)
  <2>1. CASE id[d] = id[c]
    <3>1. t[Len(s) + 1] # d /\ versions'[id[d]] = t /\ versions[id[d]] = s
      BY <1>1, <1>5, <1>8, <2>1
    <3> HIDE DEF s
    <3> QED BY <1>6, <1>7, <3>1 DEF Written
  <2>2. CASE id[d] # id[c]
    BY <1>5, <2>2 DEF Written
  <2> QED BY <2>1, <2>2
<1>9. Written(c)' = Written(c) \cup {loaded[c] + 1}
  <2>1. versions'[id[c]] = t /\ Len(s) = loaded[c] /\ t[Len(s) + 1] = c
    BY <1>1, <1>5
  <2> QED BY <1>6, <1>7, <2>1 DEF Written
<1>10. \A d \in Commands :
          /\ DOMAIN versions[id[d]] \subseteq DOMAIN versions'[id[d]]
          /\ Len(versions'[id[d]]) >= Len(versions[id[d]])
          /\ \A v \in DOMAIN versions[id[d]] : versions'[id[d]][v] = versions[id[d]][v]
  <2>1. ASSUME NEW d \in Commands, id[d] = id[c]
        PROVE  versions[id[d]] = s /\ versions'[id[d]] = t
    BY <1>5, <2>1
  <2>2. Len(t) >= Len(s)
    BY <1>1
  <2> HIDE DEF s
  <2>3. \A d \in Commands : id[d] # id[c] => versions'[id[d]] = versions[id[d]]
    BY <1>5
  <2> QED BY <1>3, <1>6, <1>7, <2>1, <2>2, <2>3
<1> QED BY <1>4, <1>8, <1>9, <1>10

LEMMA Grows ==
    ASSUME IInv, NEW c \in Commands, Effect(c), UNCHANGED id
    PROVE  /\ versions' \in [Ids -> Seq(Commands \cup {Earlier})]
           /\ \A d \in Commands :
                /\ DOMAIN versions[id[d]] \subseteq DOMAIN versions'[id[d]]
                /\ Len(versions'[id[d]]) >= Len(versions[id[d]])
                /\ \A v \in DOMAIN versions[id[d]] : versions'[id[d]][v] = versions[id[d]][v]
           /\ \A d \in Commands \ {c} : Written(d)' = Written(d)
<1>1. CASE UNCHANGED versions
  <2>1. \A d \in Commands : Len(versions[id[d]]) \in Nat
    BY DEF IInv, TypeOK
  <2> QED BY <1>1, <2>1 DEF IInv, TypeOK, Written
<1> QED BY <1>1, WriteAdds DEF Effect

-----------------------------------------------------------------------------
(* Replies *)

Answers == {"NOT_FOUND", "VALIDATION_ERROR", "ALREADY_EXISTS", "VERSION_CONFLICT", "UNEXPECTED"}

\* An error reply shows nothing else, and an unexpected one is told apart.
LEMMA ErrorReplies ==
    ASSUME NEW c, NEW error \in Answers
    PROVE  /\ ErrorReply(c, error).kind \in {"status", "text"}
           /\ ErrorReply(c, error).kind = "text" => ErrorReply(c, error).error \in ErrorType
           /\ error = "UNEXPECTED" =>
                /\ ErrorReply(c, error).kind = "status" => ErrorReply(c, error).code = 500
                /\ ErrorReply(c, error).kind = "text" => ErrorReply(c, error).error = "UNEXPECTED"
<1>1. ClassifyError(error) \in ErrorType
  BY DEF ClassifyError, ErrorType
<1>2. error = "UNEXPECTED" => ClassifyError(error) = "UNEXPECTED"
  BY DEF ClassifyError
<1>3. HttpStatusForError("UNEXPECTED") = 500
  BY DEF HttpStatusForError
<1> QED BY <1>1, <1>2, <1>3 DEF ErrorReply, Status, Text

\* A reply of c stays truthful, and c in order, while others step.
LEMMA OthersKeep ==
    ASSUME IInv, NEW c \in Commands, Step(c), NEW d \in Commands \ {c}
    PROVE  InOrder(d)' /\ Truthful(d)'
<1>1. /\ UNCHANGED <<op, id>>
      /\ place'[d] = place[d] /\ loaded'[d] = loaded[d] /\ reply'[d] = reply[d]
  BY StepShape DEF IInv, TypeOK
<1>2. /\ Written(d)' = Written(d)
      /\ DOMAIN versions[id[d]] \subseteq DOMAIN versions'[id[d]]
      /\ \A v \in DOMAIN versions[id[d]] : versions'[id[d]][v] = versions[id[d]][v]
  BY StepShape, Grows
<1>3. InOrder(d) /\ Truthful(d)
  BY DEF IInv
<1>4. InOrder(d)'
  BY <1>1, <1>2, <1>3 DEF InOrder
<1>5. Truthful(d)'
  BY <1>1, <1>2, <1>3 DEF Truthful, ToldAs
<1> QED BY <1>4, <1>5

-----------------------------------------------------------------------------
(* The command that steps *)

\* A step of c leaves c in order, and its reply truthful.
LEMMA OwnStep ==
    ASSUME IInv, NEW c \in Commands, Step(c)
    PROVE  InOrder(c)' /\ Truthful(c)'
<1>1. /\ UNCHANGED <<op, id, surface>>
      /\ Effect(c) /\ InOrder(c) /\ Truthful(c)
      /\ op[c] \in Ops /\ id[c] \in Ids /\ loaded[c] \in Nat /\ place[c] \in Places
      /\ versions[id[c]] \in Seq(Commands \cup {Earlier})
  BY StepShape DEF IInv, TypeOK
<1>2. /\ \A p : place' = [place EXCEPT ![c] = p] => place'[c] = p
      /\ \A n : loaded' = [loaded EXCEPT ![c] = n] => loaded'[c] = n
      /\ \A r : reply' = [reply EXCEPT ![c] = r] => reply'[c] = r
  BY DEF IInv, TypeOK
<1>3. versions' = versions => Written(c)' = Written(c)
  BY <1>1 DEF Written
<1>4. Len(versions[id[c]]) = loaded[c] /\ Write(c)
        => Written(c)' = Written(c) \cup {loaded[c] + 1}
  BY <1>1, WriteAdds
<1>5. CASE Receive(c)
  <2>1. /\ place[c] = "idle"
        /\ place'[c] = IF op[c] = "read" THEN "reading"
                       ELSE IF op[c] = "create" THEN "saving" ELSE "loading"
        /\ reply' = reply /\ loaded' = loaded /\ versions' = versions
    BY <1>2, <1>5 DEF Receive, Move
  <2>2. InOrder(c)'
    BY <1>1, <1>3, <2>1 DEF InOrder
  <2>3. reply'[c] = NoReply
    BY <1>1, <2>1 DEF InOrder
  <2> QED BY <2>2, <2>3 DEF Truthful, ToldAs, NoReply
<1>6. CASE Load(c)
  <2>1. versions' = versions /\ place[c] = "loading"
    BY <1>6 DEF Load, Move
  <2>2. Written(c)' = {} /\ op[c] # "read"
    BY <1>1, <1>3, <2>1 DEF InOrder
  <2>3. \/ place'[c] = "saving" /\ reply' = reply
        \/ place'[c] = "told" /\ reply'[c] = ErrorReply(c, "NOT_FOUND")
    BY <1>2, <1>6 DEF Load, Move, Tell
  <2>4. InOrder(c)'
    BY <1>1, <2>1, <2>2, <2>3 DEF InOrder
  <2>5. CASE reply' = reply
    BY <1>1, <2>1, <2>4, <2>5 DEF InOrder, Truthful, ToldAs, NoReply
  <2>6. CASE reply'[c] = ErrorReply(c, "NOT_FOUND")
    BY <2>2, <2>4, <2>6, ErrorReplies DEF Answers, Truthful
  <2> QED BY <2>3, <2>5, <2>6
<1>7. CASE Save(c)
  <2>1. place[c] = "saving" /\ Written(c) = {} /\ op[c] # "read" /\ loaded' = loaded
        /\ reply[c] = NoReply
    BY <1>1, <1>7 DEF Save, Succeed, Move, InOrder
  <2>2. CASE Len(versions[id[c]]) = loaded[c]
    <3>1. Write(c) /\ Succeed(c)
      BY <1>7, <2>2 DEF Save
    <3>2. Written(c)' = {loaded[c] + 1}
      BY <1>4, <2>1, <2>2, <3>1
    <3>3. \/ place'[c] = "reading" /\ reply' = reply
          \/ place'[c] = "told" /\ reply'[c] = Done
      BY <1>2, <3>1 DEF Succeed, Move, Tell
    <3>4. InOrder(c)'
      BY <1>1, <2>1, <3>2, <3>3 DEF InOrder
    <3> QED BY <2>1, <3>2, <3>3, <3>4 DEF Truthful, ToldAs, Done, NoReply
  <2>3. CASE Len(versions[id[c]]) # loaded[c]
    <3>1. /\ place'[c] = "told" /\ versions' = versions
          /\ reply'[c] = ErrorReply(c, "VERSION_CONFLICT")
      BY <1>2, <1>7, <2>3 DEF Save, Move, Tell
    <3>2. Written(c)' = {}
      BY <1>3, <2>1, <3>1
    <3>3. InOrder(c)'
      BY <1>1, <2>1, <3>1, <3>2 DEF InOrder
    <3> QED BY <3>1, <3>2, <3>3, ErrorReplies DEF Answers, Truthful
  <2> QED BY <2>2, <2>3
<1>8. CASE Rejected(c)
  <2>1. /\ place[c] \in {"loading", "saving"} \/ op[c] = "read"
        /\ place'[c] = "told" /\ versions' = versions /\ loaded' = loaded
        /\ \E error \in {"VALIDATION_ERROR", "ALREADY_EXISTS"} :
                reply'[c] = ErrorReply(c, error)
    BY <1>2, <1>8 DEF Rejected, Move, Tell
  <2>2. Written(c)' = {}
    BY <1>1, <1>3, <2>1 DEF InOrder
  <2>3. InOrder(c)'
    BY <1>1, <2>1, <2>2 DEF InOrder
  <2> QED BY <2>1, <2>2, <2>3, ErrorReplies DEF Answers, Truthful
<1>9. ASSUME NEW end \in {"told", "cut_off"}, Interrupted(c, end)
      PROVE  /\ place[c] # "told" /\ place'[c] = end
             /\ Written(c)' \subseteq {loaded[c] + 1}
             /\ op[c] = "read" => Written(c)' = {}
  <2>1. place[c] \in {"loading", "saving", "reading"} /\ place'[c] = end
    BY <1>2, <1>9 DEF Interrupted, Move
  <2>2. \/ versions' = versions
        \/ place[c] = "saving" /\ Len(versions[id[c]]) = loaded[c] /\ Write(c)
    BY <1>9 DEF Interrupted, MayApply, Move
  <2> QED BY <1>1, <1>3, <1>4, <2>1, <2>2 DEF InOrder
<1>10. CASE Breaks(c)
  <2>1. loaded' = loaded /\ reply'[c] = ErrorReply(c, "UNEXPECTED") /\ Interrupted(c, "told")
    BY <1>2, <1>10 DEF Breaks, Tell
  <2>2. InOrder(c)'
    BY <1>1, <1>9, <2>1 DEF InOrder
  <2> QED BY <2>1, <2>2, ErrorReplies DEF Answers, Truthful, ToldAs
<1>11. CASE Read(c)
  <2>1. /\ place[c] = "reading" /\ place'[c] = "told"
        /\ versions' = versions /\ loaded' = loaded
        /\ reply'[c] = IF Exists(id[c])
                       THEN Shown(Len(versions[id[c]]) - 1, Last(versions[id[c]]))
                       ELSE ErrorReply(c, "NOT_FOUND")
    BY <1>2, <1>11 DEF Read, Move, Tell
  <2>2. Written(c)' = Written(c) /\ (op[c] # "read" => Written(c) # {})
    BY <1>1, <1>3, <2>1 DEF InOrder
  <2>3. InOrder(c)'
    BY <1>1, <2>1, <2>2 DEF InOrder
  <2>4. CASE Exists(id[c])
    <3> DEFINE s == versions[id[c]]
    <3>1. /\ Len(s) \in Nat \ {0} /\ DOMAIN s = 1 .. Len(s)
          /\ Last(s) = s[Len(s)]
      BY <1>1, <2>4 DEF Exists, Last
    <3>2. /\ reply'[c].kind = "shown" /\ reply'[c].version = Len(s) - 1
          /\ reply'[c].writer = Last(s)
      BY <2>1, <2>4 DEF Shown
    <3>3. (Len(s) - 1) + 1 = Len(s) /\ Len(s) \in DOMAIN s
      BY <3>1
    <3>4. \A v \in Written(c) : v \in DOMAIN s /\ Len(s) >= v
      BY <3>1 DEF Written
    <3> HIDE DEF s
    <3>5. versions'[id'[c]] = s
      BY <1>1, <2>1 DEF s
    <3> QED BY <1>1, <2>2, <2>3, <3>1, <3>2, <3>3, <3>4, <3>5 DEF Truthful, ToldAs
  <2>5. CASE ~Exists(id[c])
    <3>1. Written(c) = {}
      BY <2>5 DEF Exists, Written
    <3> QED BY <2>1, <2>2, <2>3, <2>5, <3>1, ErrorReplies DEF Answers, Truthful
  <2> QED BY <2>4, <2>5
<1>12. CASE CutOff(c)
  <2>1. loaded' = loaded /\ reply' = reply /\ Interrupted(c, "cut_off")
    BY <1>12 DEF CutOff
  <2>2. reply[c] = NoReply
    BY <1>1, <1>9, <2>1 DEF InOrder
  <2>3. InOrder(c)'
    BY <1>1, <1>9, <2>1, <2>2 DEF InOrder
  <2> QED BY <2>1, <2>2, <2>3 DEF Truthful, ToldAs, NoReply
<1> QED BY <1>5, <1>6, <1>7, <1>8, <1>10, <1>11, <1>12 DEF Step

-----------------------------------------------------------------------------
(* Types *)

LEMMA StepTypes ==
    ASSUME IInv, NEW c \in Commands, Step(c)
    PROVE  /\ TypeOK' /\ loaded' \in [Commands -> Nat]
           /\ reply' = [d \in Commands |-> reply'[d]]
<1>1. /\ UNCHANGED <<op, id, surface>>
      /\ versions' \in [Ids -> Seq(Commands \cup {Earlier})]
      /\ \A d \in Commands : Len(versions'[id[d]]) >= Len(versions[id[d]])
      /\ \A d \in Commands : Len(versions'[id[d]]) \in Nat /\ Len(versions[id[d]]) \in Nat
  <2>1. versions' \in [Ids -> Seq(Commands \cup {Earlier})] /\ UNCHANGED <<op, id, surface>>
    BY StepShape, Grows
  <2> QED BY <2>1, StepShape, Grows DEF IInv, TypeOK
<1>2. place' \in [Commands -> Places] /\ loaded' \in [Commands -> Nat]
  BY StepShape DEF IInv, TypeOK
<1>3. reply' = [d \in Commands |-> reply'[d]]
  BY StepShape DEF IInv
<1>4. ASSUME NEW d \in Commands PROVE loaded'[d] \in 0 .. Len(versions'[id[d]])
  <2>1. loaded'[d] = loaded[d] \/ loaded'[d] = Len(versions[id[d]])
    BY DEF IInv, TypeOK, Step, Receive, Load, Save, Rejected, Breaks, Read, CutOff
  <2> QED BY <1>1, <2>1 DEF IInv, TypeOK
<1>5. ASSUME NEW d \in Commands, reply'[d].kind = "text" PROVE reply'[d].error \in ErrorType
  <2>1. \/ reply'[d] = reply[d]
        \/ \E error \in Answers : reply'[d] = ErrorReply(c, error)
        \/ reply'[d] = Done
        \/ \E v, w : reply'[d] = Shown(v, w)
    <3>1. d # c => reply'[d] = reply[d]
      BY StepShape DEF IInv
    <3>2. \A r : reply' = [reply EXCEPT ![c] = r] => reply'[c] = r
      BY DEF IInv
    <3>3. CASE Receive(c) \/ CutOff(c)
      BY <3>3 DEF Receive, CutOff
    <3>4. CASE Load(c)
      BY <3>1, <3>2, <3>4 DEF Load, Tell, Answers
    <3>5. CASE Save(c)
      BY <3>1, <3>2, <3>5 DEF Save, Succeed, Tell, Answers
    <3>6. CASE Rejected(c)
      BY <3>1, <3>2, <3>6 DEF Rejected, Tell, Answers
    <3>7. CASE Breaks(c)
      BY <3>1, <3>2, <3>7 DEF Breaks, Tell, Answers
    <3>8. CASE Read(c)
      BY <3>1, <3>2, <3>8 DEF Read, Tell, Answers
    <3> QED BY <3>3, <3>4, <3>5, <3>6, <3>7, <3>8 DEF Step
  <2>2. reply[d].kind = "text" => reply[d].error \in ErrorType
    BY DEF IInv, TypeOK
  <2>3. CASE \E error \in Answers : reply'[d] = ErrorReply(c, error)
    BY <1>5, <2>3, ErrorReplies
  <2>4. reply'[d] # Done
    BY <1>5 DEF Done
  <2>5. ASSUME NEW v, NEW w PROVE reply'[d] # Shown(v, w)
    <3>1. Shown(v, w).kind = "shown"
      BY DEF Shown
    <3> QED BY <1>5, <3>1
  <2> QED BY <1>5, <2>1, <2>2, <2>3, <2>4, <2>5
<1> QED BY <1>1, <1>2, <1>3, <1>4, <1>5 DEF IInv, TypeOK

-----------------------------------------------------------------------------
(* The theorems *)

\* The inductive invariant holds in every reachable state.
THEOREM Invariant == Spec => []IInv
<1>1. ASSUME IInv, NEW c \in Commands, Step(c) PROVE IInv'
  <2>1. \A d \in Commands : InOrder(d)' /\ Truthful(d)'
    BY <1>1, OwnStep, OthersKeep
  <2> QED BY <1>1, <2>1, StepTypes DEF IInv
<1>2. ASSUME IInv, UNCHANGED vars PROVE IInv'
  <2>1. UNCHANGED <<versions, op, id, surface, place, loaded, reply>>
    BY <1>2 DEF vars
  <2>2. \A c \in Commands : Written(c)' = Written(c)
    BY <2>1 DEF Written
  <2> QED BY <1>2, <2>1, <2>2 DEF IInv, TypeOK, InOrder, Truthful, ToldAs
<1>3. IInv /\ [Next]_vars => IInv'
  BY <1>1, <1>2 DEF Next
<1> QED BY InitIInv, <1>3, PTL DEF Spec

\* Histories, commands and replies have their types.
THEOREM TypesAreCorrect == Spec => []TypeOK
BY Invariant, PTL DEF IInv

\* Only a 500, or the bot's message for it, leaves open what has happened.
THEOREM RefusalsHadNoEffect == Spec => []OnlyUnexpectedConcealsAnEffect
<1>1. IInv => OnlyUnexpectedConcealsAnEffect
  BY DEF IInv, Truthful, OnlyUnexpectedConcealsAnEffect
<1> QED BY Invariant, <1>1, PTL

\* A command takes effect once at most, and once if it is told of success.
THEOREM EffectsAreSingle == Spec => []OneEffectPerCommand
<1>1. ASSUME IInv, NEW c \in Commands PROVE Cardinality(Written(c)) <= 1
  <2>1. Written(c) = {} \/ Written(c) = {loaded[c] + 1}
    BY <1>1 DEF IInv, InOrder
  <2>2. Cardinality({}) = 0 /\ Cardinality({loaded[c] + 1}) = 1
    BY FS_EmptySet, FS_Singleton
  <2>3. CASE Written(c) = {}
    BY <2>2, <2>3
  <2>4. CASE Written(c) = {loaded[c] + 1}
    BY <2>2, <2>4
  <2> QED BY <2>1, <2>3, <2>4
<1>2. IInv => OneEffectPerCommand
  BY <1>1 DEF IInv, Truthful, OneEffectPerCommand
<1> QED BY Invariant, <1>2, PTL

\* What is shown after a change is that change or a later one.
THEOREM RepliesAreRecent == Spec => []ShownIsNotOlderThanTheChange
<1>1. IInv => ShownIsNotOlderThanTheChange
  BY DEF IInv, Truthful, ShownIsNotOlderThanTheChange
<1> QED BY Invariant, <1>1, PTL

\* Of the commands that change one version, one is told of success.
THEOREM OneCommandWins == Spec => []OneWinnerPerVersion
<1>1. ASSUME IInv, NEW c \in Commands, NEW d \in Commands, id[c] = id[d],
             Written(c) # {}, Written(d) # {}, loaded[c] = loaded[d]
      PROVE  c = d
  <2>1. loaded[c] + 1 \in Written(c) /\ loaded[c] + 1 \in Written(d)
    BY <1>1 DEF IInv, InOrder
  <2> QED BY <1>1, <2>1 DEF Written
<1>2. IInv => OneWinnerPerVersion
  BY <1>1 DEF IInv, Truthful, OneWinnerPerVersion
<1> QED BY Invariant, <1>2, PTL

=============================================================================
