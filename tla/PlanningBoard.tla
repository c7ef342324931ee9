--------------------------- MODULE PlanningBoard ----------------------------
(***************************************************************************)
(* The planning board of the hotel client                                  *)
(* (src/frontend/src/pages/CalendarPlanning.tsx and PlanningBoard.tsx):    *)
(* reservations are dragged from room to room, the board shows the move at *)
(* once, and takes it back when the reservation service does not.          *)
(* A reservation has one room.  Days are counted from the first day of the *)
(* first month.                                                            *)
(***************************************************************************)
EXTENDS Integers, SequencesExt

CONSTANTS
  Reservation, Room,
  MonthDays,     \* bound: the days of each of the two months
  StayDates,     \* [first, last, cancelled] that reservations may have
  Zone,          \* midnight of a date in UTC is in the local day before (-1) or not (0)
  MaxMoves,      \* bound: moves on their way
  NoDrag

ASSUME BoardAssumption ==
  /\ MonthDays \in Nat \ {0}
  /\ Zone \in {-1, 0}
  /\ StayDates \subseteq [first : Int, last : Int, cancelled : BOOLEAN]
  /\ \A d \in StayDates : d.first < d.last

VARIABLES
  dates,     \* reservation -> a member of StayDates
  server,    \* reservation -> room
  boardState, \* "loading", "error", "shown"
  board,     \* reservation -> room, as shown
  view, month,
  drag,      \* the bar that is dragged: its reservation, its room when that began
  moves,     \* the updates on their way
  muddled,   \* history: reservations moved twice at a time, or whose answer was lost
  restored   \* history: reservations that were put back

boardVars == <<dates, server, boardState, board, view, month, drag, moves, muddled, restored>>

Months == {0, 1}

Overlapping(a, b) == dates[a].first < dates[b].last /\ dates[b].first < dates[a].last

BoardInit ==
  /\ dates \in [Reservation -> StayDates]
  /\ server \in [Reservation -> Room]
  /\ \A a, b \in Reservation :
       a # b /\ Overlapping(a, b) /\ server[a] = server[b]
         => dates[a].cancelled \/ dates[b].cancelled
  /\ boardState = "loading"
  /\ board = server
  /\ view = "planning" /\ month = 0
  /\ drag = NoDrag
  /\ moves = <<>>
  /\ muddled = {} /\ restored = {}

LoadBoard ==
  /\ boardState = "loading"
  /\ boardState' = "shown" /\ board' = server
  /\ UNCHANGED <<dates, server, view, month, drag, moves, muddled, restored>>
BoardFails ==
  /\ boardState = "loading"
  /\ boardState' = "error"
  /\ UNCHANGED <<dates, server, board, view, month, drag, moves, muddled, restored>>
TryAgain ==
  /\ boardState = "error"
  /\ boardState' = "loading"
  /\ UNCHANGED <<dates, server, board, view, month, drag, moves, muddled, restored>>

ChangeMonth ==
  /\ month' \in Months \ {month}
  /\ drag = NoDrag
  /\ UNCHANGED <<dates, server, boardState, board, view, drag, moves, muddled, restored>>
ChangeView ==
  /\ view' = IF view = "planning" THEN "month" ELSE "planning"
  /\ drag = NoDrag
  /\ UNCHANGED <<dates, server, boardState, board, month, drag, moves, muddled, restored>>

(***************************************************************************)
(* A bar, in half days from the left: from noon to noon, cut at the month, *)
(* and never narrower than half a day.                                     *)
(***************************************************************************)
FirstShown(r) == dates[r].first + Zone
LastShown(r)  == dates[r].last + Zone
MonthStart == month * MonthDays
NextMonthStart == MonthStart + MonthDays
InMonth(r) == FirstShown(r) < NextMonthStart /\ LastShown(r) >= MonthStart
(* Mutant: a bar begins with its day. *)
StartsAtMidnight(r) == 0
StartAdjust(r) == IF FirstShown(r) < MonthStart THEN 0 ELSE 1
BarStart(r) ==
  LET from == IF FirstShown(r) < MonthStart THEN MonthStart ELSE FirstShown(r)
  IN 2 * (from - MonthStart) + StartAdjust(r)
BarEnd(r) ==
  LET end == IF LastShown(r) >= NextMonthStart THEN 2 * MonthDays
             ELSE 2 * (LastShown(r) - MonthStart) + 1
  IN IF end - BarStart(r) < 1 THEN BarStart(r) + 1 ELSE end

StartDrag(r) ==
  /\ boardState = "shown" /\ view = "planning"
  /\ drag = NoDrag
  /\ InMonth(r)
  /\ drag' = [reservation |-> r, from |-> board[r]]
  /\ UNCHANGED <<dates, server, boardState, board, view, month, moves, muddled, restored>>
EndDrag ==
  /\ drag # NoDrag
  /\ drag' = NoDrag
  /\ UNCHANGED <<dates, server, boardState, board, view, month, moves, muddled, restored>>

(* Mutant: only who comes on the same day is in the way. *)
HasSameArrival(r, room) ==
  \E other \in Reservation \ {r} :
    ~dates[other].cancelled /\ board[other] = room /\ dates[other].first = dates[r].first

(* What the board shows must leave the room free, cancelled reservations   *)
(* apart.                                                                  *)
HasOverlap(r, room) ==
  \E other \in Reservation \ {r} :
    ~dates[other].cancelled /\ board[other] = room /\ Overlapping(r, other)

(* The bar is dropped on another room: the board shows it there and the    *)
(* update is sent, unless it left the room it was dragged from meanwhile.  *)
Drop(room) ==
  LET r  == drag.reservation
      to == IF board[r] = drag.from THEN room ELSE board[r]
  IN /\ drag # NoDrag
     /\ drag.from # room
     /\ drag' = NoDrag
     /\ Len(moves) < MaxMoves
     /\ IF HasOverlap(r, room) THEN UNCHANGED <<board, moves, muddled>>
        ELSE /\ board' = [board EXCEPT ![r] = to]
             /\ moves' = Append(moves, [reservation |-> r, before |-> board[r], after |-> to])
             /\ muddled' = IF \E i \in DOMAIN moves : moves[i].reservation = r
                           THEN muddled \cup {r} ELSE muddled
     /\ UNCHANGED <<dates, server, boardState, view, month, restored>>

MoveAnswered(i) ==
  /\ server' = [server EXCEPT ![moves[i].reservation] = moves[i].after]
  /\ moves' = RemoveAt(moves, i)
  /\ UNCHANGED <<dates, boardState, board, view, month, drag, muddled, restored>>

(* Mutant: a refused move stays. *)
LeftThere(b, move) == b

(* The board goes back to what it showed before the move.                  *)
PutBack(b, move) == [b EXCEPT ![move.reservation] = move.before]

MoveRefused(i) ==
  /\ board' = PutBack(board, moves[i])
  /\ restored' = restored \cup {moves[i].reservation}
  /\ moves' = RemoveAt(moves, i)
  /\ UNCHANGED <<dates, server, boardState, view, month, drag, muddled>>

MoveAnswerLost(i) ==
  LET r == moves[i].reservation IN
  /\ server' = [server EXCEPT ![r] = moves[i].after]
  /\ board' = PutBack(board, moves[i])
  /\ restored' = restored \cup {r}
  /\ muddled' = muddled \cup {r}
  /\ moves' = RemoveAt(moves, i)
  /\ UNCHANGED <<dates, boardState, view, month, drag>>

BoardNext ==
  \/ LoadBoard \/ BoardFails \/ TryAgain
  \/ ChangeMonth \/ ChangeView
  \/ \E r \in Reservation : StartDrag(r)
  \/ EndDrag
  \/ \E room \in Room : Drop(room)
  \/ \E i \in DOMAIN moves : MoveAnswered(i) \/ MoveRefused(i) \/ MoveAnswerLost(i)

BoardSpec == BoardInit /\ [][BoardNext]_boardVars

(***************************************************************************)
(* Properties.                                                             *)
(***************************************************************************)

(* When nothing is on its way the board shows the room the server has,     *)
(* after any mixture of moves, refusals and other reservations' moves      *)
(* between; only a reservation that was moved again before its first move  *)
(* was answered, or whose answer was lost, may be shown elsewhere.         *)
BoardTrue ==
  boardState = "shown" =>
    \A r \in Reservation \ muddled :
      (\A i \in DOMAIN moves : moves[i].reservation # r) => board[r] = server[r]

(* The board shows two live reservations in one room on one night only     *)
(* where a move was taken back: dropping never brings that about.          *)
OverlapOnlyRestored ==
  boardState = "shown" =>
    \A a, b \in Reservation :
      a # b /\ board[a] = board[b] /\ Overlapping(a, b)
        => dates[a].cancelled \/ dates[b].cancelled \/ {a, b} \cap restored # {}

(* Two bars of reservations whose dates do not overlap never cover each    *)
(* other, whatever part of them the month shows and in any time zone.      *)
BarsDisjoint ==
  \A a, b \in Reservation :
    a # b /\ dates[a].last <= dates[b].first /\ InMonth(a) /\ InMonth(b)
      => BarEnd(a) <= BarStart(b)
=============================================================================
