---------------------------- MODULE MCHouseMemory ----------------------------
(* Instances of HouseMemory for TLC.                                        *)
EXTENDS HouseMemory

CONSTANTS s1, s2, r1, r2, c1

MCSessions == {s1, s2}
MCRunners  == {r1, r2}
MCChats    == {c1}
MCRemarks  == {"promise"}

(* A bound: chats, failed transactions, a mandala that does not promote and *)
(* approvals go with the first turn, which a repeated ruling may have run   *)
(* again when nothing else is unusual; with the second there is what an     *)
(* answer may say besides; of the third, in a house whose first turn is the *)
(* chat session's, the runs, follow-ups, the distiller and crashes are      *)
(* followed.                                                                *)
UpTo(n)   == Len(house.turns) <= n
Quiet     == house = disk /\ Questions(house) = {} /\ house.mandala = "promotes"
Approved  == \A t \in DOMAIN house.turns : ~house.turns[t].gated
Taciturn  == \A i \in DOMAIN house.capsules : house.capsules[i].kind # "promise"
Plain     == Taciturn /\ house.turns[1].session = ChatSession

Answers(t) == {i \in DOMAIN house.capsules :
                 house.capsules[i].turn = t /\ house.capsules[i].kind = "answer"}
AnsweredUpTo(n) == \A t \in DOMAIN house.turns : Cardinality(Answers(t)) <= n

MemoryBound ==
  \/ UpTo(1) /\ AnsweredUpTo(1) /\ (Approved \/ Questions(house) = {})
  \/ Quiet /\ UpTo(1) /\ AnsweredUpTo(2)
  \/ Quiet /\ Approved /\ (UpTo(2) \/ Plain)

==============================================================================
