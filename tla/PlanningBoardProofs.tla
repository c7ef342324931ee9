------------------------ MODULE PlanningBoardProofs -------------------------
(***************************************************************************)
(* For any reservations, rooms, dates and moves on their way, months of    *)
(* any length: the board and the server agree again after a move, a drop   *)
(* never double-books, and bars lie side by side.                          *)
(***************************************************************************)
EXTENDS PlanningBoard, SequenceTheorems, TLAPS

Move == [reservation : Reservation, before : Room, after : Room]

TypeInv ==
  /\ dates \in [Reservation -> StayDates]
  /\ server \in [Reservation -> Room]
  /\ board \in [Reservation -> Room]
  /\ moves \in Seq(Move)
  /\ month \in Months
  /\ drag = NoDrag \/ drag \in [reservation : Reservation, from : Room]

(* Nothing is dragged or moved before the board is shown.                  *)
ShownInv ==
  boardState # "shown" => drag = NoDrag /\ moves = <<>>

(* The one move of a reservation leads from the server's room to the room  *)
(* that is shown; without one, they are the same.                          *)
MoveInv ==
  boardState = "shown" =>
    \A r \in Reservation \ muddled :
      /\ \A i, j \in DOMAIN moves :
           moves[i].reservation = r /\ moves[j].reservation = r => i = j
      /\ \A i \in DOMAIN moves :
           moves[i].reservation = r => server[r] = moves[i].before /\ board[r] = moves[i].after
      /\ (\A i \in DOMAIN moves : moves[i].reservation # r) => board[r] = server[r]

(* Two reservations that rooms leaves in one room on one night, neither of *)
(* which is cancelled.                                                     *)
Clash(rooms, a, b) ==
  /\ a # b /\ rooms[a] = rooms[b] /\ Overlapping(a, b)
  /\ ~dates[a].cancelled /\ ~dates[b].cancelled

(* Before the board is shown the server has no clash, and later the board  *)
(* shows one only where a move was taken back.                             *)
ClashInv ==
  /\ boardState # "shown" => \A a, b \in Reservation : ~Clash(server, a, b)
  /\ boardState = "shown" =>
       \A a, b \in Reservation : Clash(board, a, b) => a \in restored \/ b \in restored

BInv == TypeInv /\ ShownInv /\ MoveInv /\ ClashInv

---------------------------------------------------------------------------
(* What is on its way after one move was answered.                         *)
LEMMA MoveRemoved ==
  ASSUME NEW s \in Seq(Move), NEW i \in DOMAIN s
  PROVE  /\ RemoveAt(s, i) \in Seq(Move)
         /\ \A j \in DOMAIN RemoveAt(s, i) :
              \E k \in DOMAIN s \ {i} :
                /\ RemoveAt(s, i)[j] = s[k]
                /\ k = IF j < i THEN j ELSE j + 1
         /\ \A k \in DOMAIN s \ {i} :
              \E j \in DOMAIN RemoveAt(s, i) : RemoveAt(s, i)[j] = s[k]
<1> DEFINE front == SubSeq(s, 1, i - 1)
           back  == SubSeq(s, i + 1, Len(s))
<1>1. i \in 1 .. Len(s) /\ Len(s) \in Nat
  OBVIOUS
<1>2. /\ front \in Seq(Move) /\ Len(front) = i - 1
      /\ \A j \in 1 .. i - 1 : front[j] = s[j]
  BY <1>1
<1>3. /\ back \in Seq(Move) /\ Len(back) = Len(s) - i
      /\ \A j \in 1 .. Len(s) - i : back[j] = s[i + j]
  BY <1>1
<1>4. RemoveAt(s, i) = front \o back
  BY DEF RemoveAt
<1> HIDE DEF front, back
<1>5. /\ RemoveAt(s, i) \in Seq(Move)
      /\ DOMAIN RemoveAt(s, i) = 1 .. Len(s) - 1
      /\ \A j \in 1 .. Len(s) - 1 :
           RemoveAt(s, i)[j] = IF j < i THEN s[j] ELSE s[j + 1]
  <2>1. front \o back \in Seq(Move) /\ Len(front \o back) = Len(s) - 1
    BY <1>1, <1>2, <1>3
  <2>2. \A j \in 1 .. i - 1 : (front \o back)[j] = s[j]
    BY <1>1, <1>2, <1>3
  <2>3. ASSUME NEW j \in i .. Len(s) - 1
        PROVE  (front \o back)[j] = s[j + 1]
    <3>1. (front \o back)[j] = back[j - (i - 1)]
      BY <1>1, <1>2, <1>3
    <3>2. j - (i - 1) \in 1 .. Len(s) - i /\ i + (j - (i - 1)) = j + 1
      BY <1>1
    <3> QED
      BY <1>3, <3>1, <3>2
  <2>4. DOMAIN (front \o back) = 1 .. Len(s) - 1
    BY <2>1
  <2>5. ASSUME NEW j \in 1 .. Len(s) - 1
        PROVE  (front \o back)[j] = IF j < i THEN s[j] ELSE s[j + 1]
    <3>1. CASE j < i
      <4>1. j \in 1 .. i - 1
        BY <1>1, <3>1
      <4> QED
        BY <2>2, <3>1, <4>1
    <3>2. CASE ~(j < i)
      <4>1. j \in i .. Len(s) - 1
        BY <1>1, <3>2
      <4> QED
        BY <2>3, <3>2, <4>1
    <3> QED
      BY <3>1, <3>2
  <2> QED
    BY <1>4, <2>1, <2>4, <2>5
<1>6. ASSUME NEW k \in DOMAIN s \ {i}
      PROVE  \E j \in DOMAIN RemoveAt(s, i) : RemoveAt(s, i)[j] = s[k]
  <2>1. CASE k < i
    BY <1>1, <1>5, <2>1
  <2>2. CASE k > i
    <3>1. k - 1 \in 1 .. Len(s) - 1 /\ ~(k - 1 < i) /\ (k - 1) + 1 = k
      BY <1>1, <2>2
    <3> QED
      BY <1>5, <3>1
  <2> QED
    BY <1>1, <2>1, <2>2
<1> QED
  BY <1>1, <1>5, <1>6

(* Who has a move on its way after move i was answered had it before, and  *)
(* it is the same.                                                         *)
LEMMA MovesLeft ==
  ASSUME MoveInv, moves \in Seq(Move), NEW i \in DOMAIN moves, NEW r \in Reservation \ muddled,
         boardState = "shown"
  PROVE  LET left == RemoveAt(moves, i) IN
         /\ left \in Seq(Move)
         /\ r = moves[i].reservation => \A j \in DOMAIN left : left[j].reservation # r
         /\ \A j, k \in DOMAIN left :
              left[j].reservation = r /\ left[k].reservation = r => j = k
         /\ \A j \in DOMAIN left :
              left[j].reservation = r => server[r] = left[j].before /\ board[r] = left[j].after
         /\ r # moves[i].reservation /\ (\A j \in DOMAIN left : left[j].reservation # r)
              => board[r] = server[r]
<1> DEFINE left == RemoveAt(moves, i)
<1>1. /\ left \in Seq(Move)
      /\ \A j \in DOMAIN left :
           \E k \in DOMAIN moves \ {i} :
             /\ left[j] = moves[k]
             /\ k = IF j < i THEN j ELSE j + 1
      /\ \A k \in DOMAIN moves \ {i} :
           \E j \in DOMAIN left : left[j] = moves[k]
  BY MoveRemoved
<1>2. /\ \A j, k \in DOMAIN moves :
           moves[j].reservation = r /\ moves[k].reservation = r => j = k
      /\ \A j \in DOMAIN moves :
           moves[j].reservation = r => server[r] = moves[j].before /\ board[r] = moves[j].after
      /\ (\A j \in DOMAIN moves : moves[j].reservation # r) => board[r] = server[r]
  BY DEF MoveInv
<1>3. DOMAIN left \subseteq Int /\ DOMAIN moves \subseteq Int
  BY <1>1
<1> HIDE DEF left
<1>4. ASSUME NEW j \in DOMAIN left, NEW k \in DOMAIN left,
             left[j].reservation = r, left[k].reservation = r
      PROVE  j = k
  <2>1. PICK m \in DOMAIN moves \ {i} : left[j] = moves[m] /\ m = IF j < i THEN j ELSE j + 1
    BY <1>1
  <2>2. PICK n \in DOMAIN moves \ {i} : left[k] = moves[n] /\ n = IF k < i THEN k ELSE k + 1
    BY <1>1
  <2>3. m = n
    BY <1>2, <1>4, <2>1, <2>2
  <2>4. m = i => j = k
    BY <2>1
  <2> QED
    BY <1>3, <2>1, <2>2, <2>3
<1>5. ASSUME r = moves[i].reservation, NEW j \in DOMAIN left
      PROVE  left[j].reservation # r
  BY <1>1, <1>2, <1>5
<1>6. ASSUME NEW j \in DOMAIN left, left[j].reservation = r
      PROVE  server[r] = left[j].before /\ board[r] = left[j].after
  BY <1>1, <1>2, <1>6
<1>7. ASSUME r # moves[i].reservation, \A j \in DOMAIN left : left[j].reservation # r
      PROVE  board[r] = server[r]
  <2>1. \A k \in DOMAIN moves : moves[k].reservation # r
    BY <1>1, <1>7
  <2> QED
    BY <1>2, <2>1
<1>8. left = RemoveAt(moves, i)
  BY DEF left
<1> QED
  BY <1>1, <1>4, <1>5, <1>6, <1>7, <1>8

---------------------------------------------------------------------------
(* The steps.                                                              *)

(* The board opens on what the server has.                                 *)
LEMMA BoardInitInv == BoardInit => BInv
<1> SUFFICES ASSUME BoardInit
             PROVE  BInv
  OBVIOUS
<1>1. TypeInv
  BY DEF BoardInit, TypeInv, Months
<1>2. ShownInv /\ MoveInv
  BY DEF BoardInit, ShownInv, MoveInv
<1>3. ClashInv
  BY DEF BoardInit, ClashInv, Clash
<1> QED
  BY <1>1, <1>2, <1>3 DEF BInv

(* What the invariant speaks of stays as it was.                           *)
LEMMA BoardUntouched ==
  ASSUME BInv, UNCHANGED <<dates, server, boardState, board, moves, muddled, restored>>,
         month' \in Months,
         drag' = NoDrag \/ (drag' \in [reservation : Reservation, from : Room]
                             /\ boardState = "shown")
  PROVE  BInv'
<1>1. TypeInv'
  BY DEF BInv, TypeInv
<1>2. ShownInv'
  BY DEF BInv, ShownInv
<1>3. MoveInv'
  BY DEF BInv, MoveInv
<1>4. ClashInv'
  BY DEF BInv, ClashInv, Clash, Overlapping
<1> QED
  BY <1>1, <1>2, <1>3, <1>4 DEF BInv

(* It is loaded, or is not; nothing moves meanwhile.                       *)
LEMMA LoadStep == BInv /\ (LoadBoard \/ BoardFails \/ TryAgain) => BInv'
<1> SUFFICES ASSUME BInv, LoadBoard \/ BoardFails \/ TryAgain
             PROVE  BInv'
  OBVIOUS
<1>1. /\ boardState # "shown" /\ moves = <<>> /\ drag = NoDrag
      /\ UNCHANGED <<dates, server, month, drag, moves, muddled, restored>>
  BY DEF LoadBoard, BoardFails, TryAgain, BInv, ShownInv
<1>2. boardState' = "shown" => board' = server
  BY DEF LoadBoard, BoardFails, TryAgain
<1>3. board' \in [Reservation -> Room]
  BY DEF LoadBoard, BoardFails, TryAgain, BInv, TypeInv
<1>4. TypeInv'
  BY <1>1, <1>3 DEF BInv, TypeInv
<1>5. ShownInv' /\ MoveInv'
  BY <1>1, <1>2 DEF ShownInv, MoveInv
<1>6. ASSUME NEW a \in Reservation, NEW b \in Reservation
      PROVE  ~Clash(server, a, b)'
  <2>1. ~Clash(server, a, b)
    BY <1>1 DEF BInv, ClashInv
  <2> QED
    BY <1>1, <2>1 DEF Clash, Overlapping
<1>7. ASSUME NEW a \in Reservation, NEW b \in Reservation, boardState' = "shown"
      PROVE  ~Clash(board, a, b)'
  <2>1. board' = server'
    BY <1>1, <1>2, <1>7
  <2> QED
    BY <1>6, <2>1 DEF Clash
<1>8. ClashInv'
  BY <1>6, <1>7 DEF ClashInv
<1> QED
  BY <1>4, <1>5, <1>8 DEF BInv

(* A bar is dropped on another room.                                       *)
LEMMA DropStep ==
  ASSUME BInv, NEW room \in Room, Drop(room)
  PROVE  BInv'
<1> DEFINE r  == drag.reservation
           to == IF board[r] = drag.from THEN room ELSE board[r]
           m  == [reservation |-> r, before |-> board[r], after |-> to]
<1>1. /\ drag # NoDrag /\ drag' = NoDrag
      /\ UNCHANGED <<dates, server, boardState, month, restored>>
  BY DEF Drop
<1>2. boardState = "shown"
  BY <1>1 DEF BInv, ShownInv
<1>3. r \in Reservation /\ board[r] \in Room /\ to \in Room
  BY <1>1 DEF BInv, TypeInv
<1>4. m \in Move /\ m.reservation = r /\ m.before = board[r] /\ m.after = to
  BY <1>3 DEF Move
<1>5. CASE HasOverlap(r, room)
  <2>1. UNCHANGED <<board, moves, muddled>>
    BY <1>5 DEF Drop
  <2> QED
    BY <1>1, <2>1, BoardUntouched DEF BInv, TypeInv
<1>6. CASE ~HasOverlap(r, room)
  <2>1. /\ board' = [board EXCEPT ![r] = to]
        /\ moves' = Append(moves, m)
        /\ muddled' = IF \E i \in DOMAIN moves : moves[i].reservation = r
                      THEN muddled \cup {r} ELSE muddled
    BY <1>6 DEF Drop
  <2>2. to = room \/ to = board[r]
    OBVIOUS
  <2> HIDE DEF r, to, m
  <2>3. /\ board' \in [Reservation -> Room] /\ board'[r] = to
        /\ \A q \in Reservation \ {r} : board'[q] = board[q]
    BY <1>3, <2>1 DEF BInv, TypeInv
  <2>4. moves \in Seq(Move)
    BY DEF BInv, TypeInv
  <2>5. /\ moves' \in Seq(Move)
        /\ DOMAIN moves' = 1 .. Len(moves) + 1
        /\ DOMAIN moves = 1 .. Len(moves) /\ Len(moves) \in Nat
        /\ moves'[Len(moves) + 1] = m
        /\ \A i \in DOMAIN moves : moves'[i] = moves[i]
    BY <1>4, <2>1, <2>4
  <2>6. TypeInv'
    BY <1>1, <2>3, <2>5 DEF BInv, TypeInv
  <2>7. ShownInv'
    BY <1>1, <1>2 DEF ShownInv
  <2>8. MoveInv'
    <3> SUFFICES ASSUME NEW q \in Reservation \ muddled'
                 PROVE  /\ \A i, j \in DOMAIN moves' :
                             moves'[i].reservation = q /\ moves'[j].reservation = q => i = j
                        /\ \A i \in DOMAIN moves' :
                             moves'[i].reservation = q
                               => server'[q] = moves'[i].before /\ board'[q] = moves'[i].after
                        /\ (\A i \in DOMAIN moves' : moves'[i].reservation # q)
                             => board'[q] = server'[q]
      BY DEF MoveInv
    <3>1. q \in Reservation \ muddled
      BY <2>1
    <3>2. /\ \A i, j \in DOMAIN moves :
               moves[i].reservation = q /\ moves[j].reservation = q => i = j
          /\ \A i \in DOMAIN moves :
               moves[i].reservation = q => server[q] = moves[i].before /\ board[q] = moves[i].after
          /\ (\A i \in DOMAIN moves : moves[i].reservation # q) => board[q] = server[q]
      BY <1>2, <3>1 DEF BInv, MoveInv
    <3>3. CASE q = r
      <4>1. \A i \in DOMAIN moves : moves[i].reservation # r
        BY <2>1, <3>3
      <4>2. board[r] = server[r]
        BY <3>2, <3>3, <4>1
      <4>3. \A i \in DOMAIN moves' : moves'[i].reservation = r => i = Len(moves) + 1
        BY <2>5, <4>1
      <4> QED
        BY <1>1, <1>4, <2>3, <2>5, <3>3, <4>2, <4>3
    <3>4. CASE q # r
      <4>1. \A i \in DOMAIN moves' : moves'[i].reservation = q => i \in DOMAIN moves
        BY <1>4, <2>5, <3>4
      <4>2. DOMAIN moves \subseteq DOMAIN moves'
        BY <2>5
      <4>3. board'[q] = board[q] /\ server'[q] = server[q]
        BY <1>1, <2>3, <3>4
      <4> QED
        BY <2>5, <3>2, <4>1, <4>2, <4>3
    <3> QED
      BY <3>3, <3>4
  <2>9. ASSUME NEW a \in Reservation, NEW b \in Reservation, Clash(board, a, b)'
        PROVE  a \in restored' \/ b \in restored'
    <3>1. \A q \in Reservation \ {r} : Overlapping(r, q) /\ ~dates[q].cancelled => board[q] # room
      BY <1>6 DEF HasOverlap
    <3>2. Clash(board', a, b)
      BY <1>1, <2>9 DEF Clash, Overlapping
    <3>3. CASE a # r /\ b # r
      BY <1>1, <1>2, <2>3, <3>2, <3>3 DEF BInv, ClashInv, Clash
    <3>4. CASE to = board[r]
      <4>1. board'[a] = board[a] /\ board'[b] = board[b]
        BY <2>3, <3>4
      <4> QED
        BY <1>1, <1>2, <3>2, <4>1 DEF BInv, ClashInv, Clash
    <3>5. CASE a = r /\ to = room
      BY <2>3, <3>1, <3>2, <3>5 DEF Clash
    <3>6. CASE b = r /\ to = room
      BY <2>3, <3>1, <3>2, <3>6 DEF Clash, Overlapping
    <3> QED
      BY <2>2, <3>3, <3>4, <3>5, <3>6
  <2>10. ClashInv'
    BY <1>1, <1>2, <2>9 DEF ClashInv
  <2> QED
    BY <2>6, <2>7, <2>8, <2>10 DEF BInv
<1> QED
  BY <1>5, <1>6

(* A clash of what is shown stays one, when neither room changes.          *)
LEMMA ClashBefore ==
  ASSUME NEW a \in Reservation, NEW b \in Reservation, Clash(board, a, b)',
         UNCHANGED dates, board'[a] = board[a], board'[b] = board[b]
  PROVE  Clash(board, a, b)
BY DEF Clash, Overlapping

(* A move is answered; the answer is a refusal or it is lost.              *)
LEMMA AnswerStep ==
  ASSUME BInv, NEW i \in DOMAIN moves,
         MoveAnswered(i) \/ MoveRefused(i) \/ MoveAnswerLost(i)
  PROVE  BInv'
<1> DEFINE r    == moves[i].reservation
           left == RemoveAt(moves, i)
<1>1. /\ moves \in Seq(Move)
      /\ boardState = "shown"
  BY DEF BInv, TypeInv, ShownInv
<1>2. r \in Reservation /\ moves[i].before \in Room /\ moves[i].after \in Room
  <2>1. moves[i] \in Move
    BY <1>1
  <2> QED
    BY <2>1 DEF Move
<1>3. /\ moves' = left
      /\ UNCHANGED <<dates, boardState, month, drag>>
      /\ muddled \subseteq muddled' /\ restored \subseteq restored'
  BY DEF MoveAnswered, MoveRefused, MoveAnswerLost
<1>4. server' = server \/ server' = [server EXCEPT ![r] = moves[i].after]
  BY DEF MoveAnswered, MoveRefused, MoveAnswerLost
<1>5. \/ board' = board
      \/ board' = [board EXCEPT ![r] = moves[i].before] /\ r \in restored'
  BY DEF MoveAnswered, MoveRefused, MoveAnswerLost, PutBack
<1>6. left \in Seq(Move)
  BY <1>1, MoveRemoved
<1>7. \/ server' = [server EXCEPT ![r] = moves[i].after] /\ board' = board
      \/ server' = server /\ board' = [board EXCEPT ![r] = moves[i].before]
      \/ r \in muddled'
  BY DEF MoveAnswered, MoveRefused, MoveAnswerLost, PutBack
<1>8. ASSUME NEW q \in Reservation \ muddled
      PROVE  /\ q = r => server[r] = moves[i].before /\ board[r] = moves[i].after
             /\ q = r => \A j \in DOMAIN left : left[j].reservation # q
             /\ \A j, k \in DOMAIN left :
                  left[j].reservation = q /\ left[k].reservation = q => j = k
             /\ \A j \in DOMAIN left :
                  left[j].reservation = q => server[q] = left[j].before /\ board[q] = left[j].after
             /\ q # r /\ (\A j \in DOMAIN left : left[j].reservation # q)
                  => board[q] = server[q]
  <2>1. q = r => server[r] = moves[i].before /\ board[r] = moves[i].after
    BY <1>1 DEF BInv, MoveInv
  <2>2. MoveInv
    BY DEF BInv
  <2> QED
    BY <1>1, <2>1, <2>2, MovesLeft
<1> HIDE DEF r, left
<1>9. /\ server' \in [Reservation -> Room] /\ board' \in [Reservation -> Room]
      /\ \A q \in Reservation \ {r} : server'[q] = server[q] /\ board'[q] = board[q]
  BY <1>2, <1>4, <1>5 DEF BInv, TypeInv
<1>10. r \notin muddled' /\ server[r] = moves[i].before /\ board[r] = moves[i].after
         => board'[r] = server'[r]
  BY <1>2, <1>7 DEF BInv, TypeInv
<1>11. TypeInv'
  BY <1>3, <1>6, <1>9 DEF BInv, TypeInv
<1>12. ShownInv'
  BY <1>1, <1>3 DEF ShownInv
<1>13. MoveInv'
  <2> SUFFICES ASSUME NEW q \in Reservation \ muddled'
               PROVE  /\ \A j, k \in DOMAIN left :
                           left[j].reservation = q /\ left[k].reservation = q => j = k
                      /\ \A j \in DOMAIN left :
                           left[j].reservation = q
                             => server'[q] = left[j].before /\ board'[q] = left[j].after
                      /\ (\A j \in DOMAIN left : left[j].reservation # q)
                           => board'[q] = server'[q]
    BY <1>3 DEF MoveInv
  <2>1. q \in Reservation \ muddled
    BY <1>3
  <2>2. CASE q = r
    BY <1>8, <1>10, <2>1, <2>2
  <2>3. CASE q # r
    <3>1. server'[q] = server[q] /\ board'[q] = board[q]
      BY <1>9, <2>3
    <3> QED
      BY <1>8, <2>1, <2>3, <3>1
  <2> QED
    BY <2>2, <2>3
<1>14. ASSUME NEW a \in Reservation, NEW b \in Reservation, Clash(board, a, b)'
       PROVE  a \in restored' \/ b \in restored'
  <2>1. CASE r \in restored' /\ r \in {a, b}
    BY <2>1
  <2>2. CASE board'[a] = board[a] /\ board'[b] = board[b]
    <3>1. Clash(board, a, b)
      BY <1>3, <1>14, <2>2, ClashBefore
    <3> QED
      BY <1>1, <1>3, <3>1 DEF BInv, ClashInv
  <2> QED
    BY <1>5, <1>9, <2>1, <2>2
<1>15. ClashInv'
  BY <1>1, <1>3, <1>14 DEF ClashInv
<1> QED
  BY <1>11, <1>12, <1>13, <1>15 DEF BInv

(* Every step keeps the invariant.                                         *)
LEMMA BoardStepInv == BInv /\ [BoardNext]_boardVars => BInv'
<1> SUFFICES ASSUME BInv, [BoardNext]_boardVars
             PROVE  BInv'
  OBVIOUS
<1>1. /\ month \in Months
      /\ drag = NoDrag \/ drag \in [reservation : Reservation, from : Room]
      /\ drag # NoDrag => boardState = "shown"
  BY DEF BInv, TypeInv, ShownInv
<1>2. CASE ChangeMonth \/ ChangeView \/ EndDrag \/ UNCHANGED boardVars
  <2>1. /\ UNCHANGED <<dates, server, boardState, board, moves, muddled, restored>>
        /\ month' \in Months
        /\ drag' = NoDrag \/ drag' = drag
    BY <1>1, <1>2 DEF ChangeMonth, ChangeView, EndDrag, boardVars
  <2> QED
    BY <1>1, <2>1, BoardUntouched
<1>3. ASSUME NEW r \in Reservation, StartDrag(r)
      PROVE  BInv'
  <2>1. /\ UNCHANGED <<dates, server, boardState, board, moves, muddled, restored>>
        /\ month' \in Months
        /\ boardState = "shown"
        /\ drag' \in [reservation : Reservation, from : Room]
    BY <1>1, <1>3 DEF StartDrag, BInv, TypeInv
  <2> QED
    BY <2>1, BoardUntouched
<1> QED
  BY <1>2, <1>3, LoadStep, DropStep, AnswerStep DEF BoardNext

(* The invariant holds in every state.                                     *)
LEMMA BoardInvariant == BoardSpec => []BInv
BY BoardInitInv, BoardStepInv, PTL DEF BoardSpec

(* When nothing of a reservation is on its way the board shows the room    *)
(* the server has, whatever was refused and moved between.                 *)
THEOREM BoardIsTrue == BoardSpec => []BoardTrue
<1>1. BInv => BoardTrue
  BY DEF BInv, MoveInv, BoardTrue
<1> QED
  BY <1>1, BoardInvariant, PTL

(* handleMove never brings two live reservations into one room on one      *)
(* night; only its rollback does.                                          *)
THEOREM DropsNeverClash == BoardSpec => []OverlapOnlyRestored
<1>1. BInv => OverlapOnlyRestored
  BY DEF BInv, ClashInv, Clash, OverlapOnlyRestored
<1> QED
  BY <1>1, BoardInvariant, PTL

(* The bars of consecutive stays lie side by side, in months of any length *)
(* and both time zones.                                                    *)
THEOREM BarsAreDisjoint == BoardSpec => []BarsDisjoint
<1>1. ASSUME TypeInv
      PROVE  BarsDisjoint
  <2> SUFFICES ASSUME NEW a \in Reservation, NEW b \in Reservation,
                      dates[a].last <= dates[b].first, InMonth(a), InMonth(b)
               PROVE  BarEnd(a) <= BarStart(b)
    BY DEF BarsDisjoint
  <2>1. /\ dates[a].first \in Int /\ dates[a].last \in Int
        /\ dates[b].first \in Int /\ dates[b].last \in Int
        /\ dates[a].first < dates[a].last /\ dates[b].first < dates[b].last
    BY <1>1, BoardAssumption DEF TypeInv
  <2>2. MonthStart \in Int /\ MonthDays \in Nat \ {0} /\ Zone \in Int
    <3>1. month = 0 \/ month = 1
      BY <1>1 DEF TypeInv, Months
    <3> QED
      BY <3>1, BoardAssumption DEF MonthStart
  <2> QED
    BY <2>1, <2>2 DEF InMonth, BarStart, BarEnd, StartAdjust, FirstShown, LastShown, NextMonthStart
<1>2. BInv => TypeInv
  BY DEF BInv
<1> QED
  BY <1>1, <1>2, BoardInvariant, PTL
=============================================================================
