---------------------------- MODULE RoomScreens ----------------------------
(***************************************************************************)
(* Rooms, room types, their rates, and housekeeping in the hotel client    *)
(* (src/frontend/src/pages).  Today's and tomorrow's availability, a month *)
(* or a status to show are one field, filter.                              *)
(***************************************************************************)
EXTENDS Screens

RateSeasonCalls ==
  [getRateCalendar |-> Get({"rate", "roomType"}),
   bulkApplyRate   |-> Put({"rate"}),
   listSeasons     |-> Get({"rate"}),
   createSeason    |-> Put({"rate"}),
   updateSeason    |-> Put({"rate"}),
   deleteSeason    |-> Put({"rate"})]

(***************************************************************************)
(* Rooms/index.tsx, RoomList.tsx and RoomFormModal.tsx: a tab mounts its   *)
(* list anew.                                                              *)
(***************************************************************************)
RoomListState ==
  {Shown([rows |-> None, filter |-> f, loading |-> TRUE, error |-> FALSE,
          modal |-> None] @@ FormState) : f \in {"", "x"}}

LoadRooms ==
  Handler([reads |-> {"filter"},
           start |-> [loading |-> TRUE, error |-> FALSE],
           steps |-> <<Await([calls |-> {"getAvailableRooms", "getAllRooms", "getAllRoomTypes"},
                              then  |-> {[rows |-> Answer]}])>>,
           fail  |-> Sorry @@ [error |-> TRUE],
           final |-> [loading |-> FALSE]])

SaveRoom == SavesForm({"updateRoom", "createRoom"}, {"filter"})
DeleteRoom == DeletesForm("deleteRoom", {"filter"})
RoomFormModal == FormHandlers(SaveRoom, DeleteRoom)

RoomListHandlers ==
  RoomFormModal @@
  [load   |-> LoadRooms,
   toggleAvailable |-> Sets("filter", {"", "x"}),
   add    |-> Does([modal |-> "new"]),
   edit   |-> Does([modal |-> "r1", form |-> "good"])]

(* A room can be added once the types were loaded.                         *)
RoomListControls ==
  LET known == {[fresh |-> f, q |-> [filter |-> x]] : f \in BOOLEAN, x \in {"", "x"}}
  IN FormControls @@
     Within([modal |-> {None}],
       [toggleAvailable |-> Always,
        add  |-> {[rows |-> known]},
        load |-> {[loading |-> {FALSE}, error |-> {TRUE}]},
        edit |-> {[loading |-> {FALSE}, error |-> {FALSE}]}])

RoomList ==
  ScreenOf([states   |-> RoomListState,
            handlers |-> RoomListHandlers,
            controls |-> RoomListControls,
            effects  |-> <<[run |-> "load", deps |-> {"filter"}]>>,
            parts    |-> [modal |-> FormState],
            data     |-> [rows |-> {"room", "roomType"}],
            outrun   |-> {"rows"}, \* of two loads the last answer stays
            busy     |-> {"loading", "saving"},
            alerts   |-> {"error"}])

Tabs == [showTypes |-> Goes("roomTypeList"), showRooms |-> Goes("roomList")]
Rooms ==
  [RoomList EXCEPT !.handlers = RoomListHandlers @@ [showTypes |-> Tabs.showTypes],
                   !.controls = RoomListControls @@ [showTypes |-> {[modal |-> {None}]}]]

(***************************************************************************)
(* RoomTypeList.tsx with RoomTypeFormModal.tsx and                         *)
(* RateSeasonManagerModal.tsx                                              *)
(***************************************************************************)
SeasonsState ==
  [rates |-> None, listing |-> FALSE, seasonBusy |-> FALSE, mode |-> "list",
   season |-> "bad", wrong |-> FALSE, toDelete |-> None]

RoomTypeListState ==
  {Shown([rows |-> None, loading |-> TRUE, error |-> FALSE, modal |-> None,
          seasons |-> None] @@ FormState @@ SeasonsState)}

LoadRoomTypes ==
  Handler([start |-> [loading |-> TRUE, error |-> FALSE],
           steps |-> <<Await([calls |-> {"getAllRoomTypes"}, then |-> {[rows |-> Answer]}])>>,
           fail  |-> Sorry @@ [error |-> TRUE],
           final |-> [loading |-> FALSE]])

SaveRoomType == SavesForm({"updateRoomType", "createRoomType"}, {})
DeleteRoomType == DeletesForm("deleteRoomType", {})
RoomTypeFormModal == FormHandlers(SaveRoomType, DeleteRoomType)

LoadSeasons ==
  Handler([part  |-> "seasons",
           needs |-> <<Unless({[seasons |-> {"open"}]}, Nothing)>>,
           start |-> [listing |-> TRUE],
           steps |-> <<Await([calls |-> {"listSeasons"}, then |-> {[rates |-> Answer]}])>>,
           fail  |-> Sorry,
           final |-> [listing |-> FALSE]])

(* An overlap with another season is one of the ways the call fails.       *)
SaveSeason ==
  Handler([part  |-> "seasons",
           needs |-> <<Unless({[season |-> {"good"}]}, [wrong |-> TRUE])>>,
           start |-> [wrong |-> FALSE, seasonBusy |-> TRUE],
           steps |-> <<Await([calls |-> {"updateSeason", "createSeason"},
                              then  |-> {Done @@ [mode |-> "list"]}]),
                       Inline(LoadSeasons)>>,
           fail  |-> Sorry,
           final |-> [seasonBusy |-> FALSE]])

DeleteSeason ==
  Handler([part  |-> "seasons",
           needs |-> <<Unless({[toDelete |-> {"r1"}]}, Nothing)>>,
           start |-> [seasonBusy |-> TRUE],
           steps |-> <<Await([calls |-> {"deleteSeason"}, then |-> {Done}]),
                       Inline(LoadSeasons)>>,
           fail  |-> Sorry,
           final |-> [seasonBusy |-> FALSE, toDelete |-> None]])

RateSeasonManagerModal ==
  [loadSeasons  |-> LoadSeasons,
   addSeason    |-> Does([season |-> "bad", wrong |-> FALSE, mode |-> "form"]),
   editSeason   |-> Does([season |-> "good", wrong |-> FALSE, mode |-> "form"]),
   backToList   |-> Does([mode |-> "list"]),
   fillSeason   |-> Sets("season", {"bad", "good"}),
   saveSeason   |-> SaveSeason,
   askDelete    |-> Does([toDelete |-> "r1"]),
   keepSeason   |-> Does([toDelete |-> None]),
   deleteSeason |-> DeleteSeason,
   closeSeasons |-> Does([seasons |-> None])]

RateSeasonControls ==
  LET open   == [seasons |-> {"open"}]
      inList == open @@ [mode |-> {"list"}]
      rows   == inList @@ [listing |-> {FALSE}, toDelete |-> {None}]
      sure   == inList @@ [listing |-> {FALSE}, toDelete |-> {"r1"}]
      idle   == {[seasonBusy |-> {FALSE}]}
  IN  Within(open, [closeSeasons |-> Always])
   @@ Within(inList, [addSeason |-> Always])
   @@ Within(rows, [editSeason |-> Always, askDelete |-> Always])
   @@ Within(sure, [keepSeason |-> idle, deleteSeason |-> idle])
   @@ Within(open @@ [mode |-> {"form"}],
             [backToList |-> idle, fillSeason |-> Always, saveSeason |-> idle])

RoomTypeListHandlers ==
  RoomTypeFormModal @@ RateSeasonManagerModal @@
  [load      |-> LoadRoomTypes,
   showRooms |-> Tabs.showRooms,
   add       |-> Does([modal |-> "new"]),
   edit      |-> Does([modal |-> "r1", form |-> "good"]),
   manageSeasons |-> Does([seasons |-> "open"])]

RoomTypeListControls ==
  LET listed == {[loading |-> {FALSE}, error |-> {FALSE}]}
  IN FormControls @@ RateSeasonControls @@
     Within([modal |-> {None}, seasons |-> {None}],
       [showRooms |-> Always,
        add  |-> Always,
        edit |-> listed,
        manageSeasons |-> listed,
        load |-> {[loading |-> {FALSE}, error |-> {TRUE}]}])

RoomTypeList ==
  ScreenOf([states   |-> RoomTypeListState,
            handlers |-> RoomTypeListHandlers,
            controls |-> RoomTypeListControls,
            effects  |-> <<[run |-> "load", deps |-> {}],
                           [run |-> "loadSeasons", deps |-> {"seasons"}]>>,
            parts    |-> [modal |-> FormState, seasons |-> SeasonsState],
            data     |-> [rows |-> {"roomType"}, rates |-> {"rate"}],
            busy     |-> {"loading", "saving", "listing", "seasonBusy"},
            alerts   |-> {"error"}])

(***************************************************************************)
(* RateCalendar.tsx with RateCalendarCell.tsx and RateBulkApplyDialog.tsx  *)
(***************************************************************************)
BulkApplyState == [form |-> "bad", errors |-> FALSE, saving |-> FALSE]

RateCalendarState ==
  {Shown([manager |-> m, rows |-> None, filter |-> "", loading |-> TRUE, error |-> FALSE,
          selection |-> None, dragging |-> FALSE, modal |-> None] @@ BulkApplyState)
     : m \in BOOLEAN}

LoadCalendar == Loads({"getRateCalendar"}, {"filter"}, {[rows |-> Answer]})

BulkApply ==
  Handler([part  |-> "modal",
           needs |-> <<Unless({[form |-> {"good"}]}, [errors |-> TRUE])>>,
           reads |-> {"filter"},
           start |-> [errors |-> FALSE, saving |-> TRUE],
           steps |-> <<Await([calls |-> {"bulkApplyRate"},
                              then  |-> {Done @@ Runs("load")
                                         @@ [selection |-> None, modal |-> None]}])>>,
           fail  |-> Sorry,
           final |-> [saving |-> FALSE]])

(* A cell starts a selection, alone; the pointer drags it, or Shift does,  *)
(* to several.                                                             *)
RateCalendarHandlers ==
  [load        |-> LoadCalendar,
   reset       |-> Does([selection |-> None]),
   month       |-> Sets("filter", {"", "x"}),
   pointerDown |-> Does([dragging |-> TRUE, selection |-> "one"]),
   pointerEnter |-> Does([selection |-> "some"]),
   pointerUp   |-> Does([dragging |-> FALSE]),
   selectByKey |-> Does([selection |-> "one"]),
   extendByKey |-> Does([selection |-> "some"]),
   clear       |-> Does([selection |-> None]),
   openDialog  |-> Does([modal |-> "new"]),
   fill        |-> Sets("form", {"bad", "good"}),
   apply       |-> BulkApply,
   closeDialog |-> Does([modal |-> None])]

RateCalendarControls ==
  LET top   == [modal |-> {None}]
      cells == top @@ [manager |-> {TRUE}, loading |-> {FALSE}, error |-> {FALSE}]
  IN  Within(top, [month      |-> Always,
                   load       |-> {[loading |-> {FALSE}, error |-> {TRUE}]},
                   openDialog |-> {[manager |-> {TRUE}]},
                   clear      |-> {[selection |-> {"one", "some"}]}])
   @@ Within(cells, [pointerDown  |-> Always,
                     pointerEnter |-> {[dragging |-> {TRUE}]},
                     selectByKey  |-> Always,
                     extendByKey  |-> {[selection |-> {"one", "some"}]}])
   @@ [pointerUp |-> {[dragging |-> {TRUE}]}]
   @@ Within([modal |-> {"new"}],
             [fill |-> Always, closeDialog |-> Always, apply |-> {[saving |-> {FALSE}]}])

RateCalendar ==
  ScreenOf([states   |-> RateCalendarState,
            handlers |-> RateCalendarHandlers,
            controls |-> RateCalendarControls,
            effects  |-> <<[run |-> "load", deps |-> {"filter"}],
                           [run |-> "reset", deps |-> {"filter"}]>>,
            parts    |-> [modal |-> BulkApplyState],
            data     |-> [rows |-> {"rate", "roomType"}],
            outrun   |-> {"rows"}, \* of two months the last answer stays
            busy     |-> {"loading", "saving"},
            alerts   |-> {"error"}])

(***************************************************************************)
(* Housekeeping.tsx.  One room; its card is there when the list is shown   *)
(* and the filter lets it through, and keeps the status it is being set to.*)
(***************************************************************************)
RoomCard == [updating |-> None]

HousekeepingState ==
  {Shown([rows |-> None, loading |-> TRUE, error |-> FALSE, room |-> "DIRTY",
          card |-> None] @@ RoomCard)}

LoadHousekeeping ==
  Handler([start |-> [loading |-> TRUE, error |-> FALSE, card |-> None],
           steps |-> <<Await([calls |-> {"getAllRooms"},
                              then  |-> {[rows |-> Answer, room |-> s, card |-> c]
                                           : s \in {"CLEAN", "DIRTY", "OCCUPIED"},
                                             c \in {None, "shown"}}])>>,
           fail  |-> [error |-> TRUE],
           final |-> [loading |-> FALSE]])

(* With its new status the room may not be among those that are shown.     *)
SetRoomStatus ==
  Handler([part   |-> "card",
           takes  |-> {"CLEAN", "DIRTY"},
           except |-> {"room"},
           start  |-> [updating |-> Arg],
           steps  |-> <<Await([calls |-> {"updateRoomStatus"},
                               then  |-> {Done @@ [rows |-> Patched, room |-> Arg] @@ e
                                            : e \in {Nothing, [card |-> None]}}])>>,
           fail   |-> Sorry,
           final  |-> [updating |-> None]])

HousekeepingHandlers ==
  [load      |-> LoadHousekeeping,
   setStatus |-> SetRoomStatus,
   filter    |-> Sets("card", {None, "shown"})]

HousekeepingControls ==
  [load      |-> Always,
   filter    |-> {[loading |-> {FALSE}, error |-> {FALSE}]},
   setStatus |-> {[card |-> {"shown"}, updating |-> {None}, room |-> {"CLEAN", "DIRTY"}]}]

Housekeeping ==
  ScreenOf([states   |-> HousekeepingState,
            handlers |-> HousekeepingHandlers,
            controls |-> HousekeepingControls,
            effects  |-> <<[run |-> "load", deps |-> {}]>>,
            parts    |-> [card |-> RoomCard],
            data     |-> [rows |-> {"room"}],
            busy     |-> {"loading"},
            alerts   |-> {"error"}])
=============================================================================
