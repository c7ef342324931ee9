------------------------- MODULE FrontDeskScreens --------------------------
(***************************************************************************)
(* The front desk of the hotel client: reservations, guests, quotations,   *)
(* stays and the two calendars (src/frontend/src/pages).                   *)
(* A form is "bad" or "good" by its validation; what a list is asked for   *)
(* besides its page (search, filters, order) is one field, filter; a list  *)
(* has two pages and, where it matters which row is meant, two rows.       *)
(***************************************************************************)
EXTENDS Screens

(***************************************************************************)
(* Services: the tables that each call reads and writes.                   *)
(***************************************************************************)
ReservationCalls ==
  [getAllReservations     |-> Get({"reservation"}),
   searchReservations     |-> Get({"reservation"}),
   getReservationById     |-> Get({"reservation"}),
   createReservation      |-> Put({"reservation"}),
   updateReservation      |-> Put({"reservation"}),
   deleteReservation      |-> Put({"reservation"}),
   retryConfirmationEmail |-> Put({"reservation"})]

GuestCalls ==
  [searchGuests      |-> Get({"guest"}),
   searchGuestsPaged |-> Get({"guest"}),
   getGuestById      |-> Get({"guest"}),
   createGuest       |-> Put({"guest"}),
   updateGuest       |-> Put({"guest"}),
   deleteGuest       |-> Put({"guest"})]

InventoryCalls ==
  [getAllRoomTypes   |-> Get({"roomType"}),
   getRoomTypeById   |-> Get({"roomType"}),
   createRoomType    |-> Put({"roomType"}),
   updateRoomType    |-> Put({"roomType"}),
   deleteRoomType    |-> Put({"roomType"}),
   getAllRooms       |-> Get({"room"}),
   getRoomById       |-> Get({"room"}),
   getAvailableRooms |-> Get({"room", "rate", "reservation"}),
   createRoom        |-> Put({"room"}),
   updateRoom        |-> Put({"room"}),
   updateRoomStatus  |-> Put({"room"}),
   deleteRoom        |-> Put({"room"})]

(***************************************************************************)
(* Reservations.tsx                                                        *)
(***************************************************************************)
ReservationsState ==
  {Shown([admin |-> TRUE, rows |-> None, page |-> 0, filter |-> "",
          loading |-> TRUE, error |-> FALSE,
          toDelete |-> None, deleting |-> FALSE, retrying |-> None])}

LoadReservations ==
  Loads({"searchReservations", "getAllRooms"}, {"filter", "page"}, {[rows |-> Answer]})

RetryEmail ==
  Handler([takes  |-> Rows,
           except |-> {"retrying"},
           start  |-> [retrying |-> Arg],
           steps  |-> <<Await([calls |-> {"retryConfirmationEmail"},
                               then  |-> {Done @@ [rows |-> Patched]}])>>,
           fail   |-> Sorry,
           final  |-> [retrying |-> None]])

DeleteReservation ==
  Handler([needs |-> <<Unless({[toDelete |-> Rows]}, Nothing)>>,
           reads |-> {"filter", "page"},
           start |-> [deleting |-> TRUE],
           steps |-> <<Await([calls |-> {"deleteReservation"}]),
                       With(Inline(LoadReservations), Done)>>,
           fail  |-> Sorry,
           final |-> [deleting |-> FALSE, toDelete |-> None]])

ReservationsHandlers ==
  [search    |-> Search("filter"),
   sort      |-> Sets("filter", {"", "x"}),
   previous  |-> Does([page |-> 0]),
   next      |-> Does([page |-> 1]),
   firstPage |-> Does([page |-> 0]),
   load      |-> LoadReservations,
   retry     |-> RetryEmail,
   toNew     |-> Goes("reservationForm"),
   checkIn   |-> Goes("checkIn"),
   view      |-> Goes("reservationForm"),
   askDelete |-> Sets("toDelete", Rows),
   close     |-> Does([toDelete |-> None]),
   cancel    |-> Does([toDelete |-> None]),
   delete    |-> DeleteReservation]

(* Cancel and confirm are disabled while deleting, the dialog's own close  *)
(* (Escape, scrim, button) is not.                                         *)
ReservationsControls ==
  LET ready  == [loading |-> {FALSE}, error |-> {FALSE}, toDelete |-> {None}]
      open   == [toDelete |-> Rows]
      top    == [toDelete |-> {None}]
  IN  Within(ready, [retry     |-> Always,
                     checkIn   |-> Always,
                     view      |-> Always,
                     askDelete |-> {[admin |-> {TRUE}]},
                     previous  |-> {[page |-> {1}]},
                     next      |-> {[page |-> {0}]}])
   @@ Within(top, [search |-> Always, sort |-> Always, toNew |-> Always,
                   load   |-> {[loading |-> {FALSE}, error |-> {TRUE}]}])
   @@ Within(open, [close  |-> Always,
                    cancel |-> {[deleting |-> {FALSE}]},
                    delete |-> {[deleting |-> {FALSE}]}])

Reservations ==
  ScreenOf([states   |-> ReservationsState,
            handlers |-> ReservationsHandlers,
            controls |-> ReservationsControls,
            effects  |-> <<[run |-> "firstPage", deps |-> {"filter"}],
                           [run |-> "load",      deps |-> {"filter", "page"}]>>,
            data     |-> [rows |-> {"reservation"}],
            outrun   |-> {"rows"}, \* of two loads the last answer stays
            again    |-> {"retry"}, \* one row at a time is marked busy
            busy     |-> {"loading", "deleting"},
            alerts   |-> {"error"}])

(***************************************************************************)
(* Guests.tsx with GuestFormModal.tsx                                      *)
(***************************************************************************)
GuestsState ==
  {Shown([admin |-> TRUE, rows |-> None, page |-> 0, filter |-> "", loading |-> TRUE,
          error |-> FALSE, toDelete |-> None, deleting |-> FALSE,
          modal |-> None] @@ FormState)}

SaveGuest == SavesForm({"updateGuest", "createGuest"}, {"filter", "page"})
DeleteGuestInForm == DeletesForm("deleteGuest", {"filter", "page"})
GuestFormModal == FormHandlers(SaveGuest, DeleteGuestInForm)

LoadGuests == Loads({"searchGuestsPaged"}, {"filter", "page"}, {[rows |-> Answer]})

DeleteGuest ==
  Handler([needs |-> <<Unless({[toDelete |-> Rows]}, Nothing)>>,
           reads |-> {"filter", "page"},
           start |-> [deleting |-> TRUE],
           steps |-> <<Await([calls |-> {"deleteGuest"}]), With(Inline(LoadGuests), Done)>>,
           fail  |-> Sorry,
           final |-> [deleting |-> FALSE, toDelete |-> None]])

GuestsHandlers ==
  GuestFormModal @@
  [search    |-> Search("filter"),
   previous  |-> Does([page |-> 0]),
   next      |-> Does([page |-> 1]),
   firstPage |-> Does([page |-> 0]),
   load      |-> LoadGuests,
   add       |-> Does([modal |-> "new"]),
   edit      |-> Does([modal |-> "r1", form |-> "good"]),
   askDelete |-> Sets("toDelete", {"r1"}),
   close     |-> Does([toDelete |-> None]),
   delete    |-> DeleteGuest]

GuestsControls ==
  LET top    == [modal |-> {None}, toDelete |-> {None}]
      listed == top @@ [loading |-> {FALSE}, error |-> {FALSE}]
  IN FormControls
   @@ Within(top, [search |-> Always, add |-> Always,
                   load |-> {[loading |-> {FALSE}, error |-> {TRUE}]}])
   @@ Within(listed, [edit      |-> Always,
                      askDelete |-> {[admin |-> {TRUE}]},
                      previous  |-> {[page |-> {1}]},
                      next      |-> {[page |-> {0}]}])
   @@ Within([toDelete |-> Rows], [close |-> Always, delete |-> {[deleting |-> {FALSE}]}])

Guests ==
  ScreenOf([states   |-> GuestsState,
            handlers |-> GuestsHandlers,
            controls |-> GuestsControls,
            effects  |-> <<[run |-> "firstPage", deps |-> {"filter"}],
                           [run |-> "load",      deps |-> {"filter", "page"}]>>,
            parts    |-> [modal |-> FormState],
            data     |-> [rows |-> {"guest"}],
            outrun   |-> {"rows"}, \* of two loads the last answer stays
            busy     |-> {"loading", "deleting", "saving"},
            alerts   |-> {"error"}])

(***************************************************************************)
(* Quotations.tsx                                                          *)
(***************************************************************************)
QuotationCalls ==
  [getAllQuotations     |-> Get({"quotation"}),
   getQuotationById     |-> Get({"quotation"}),
   createQuotation      |-> Put({"quotation"}),
   updateQuotation      |-> Put({"quotation"}),
   duplicateQuotation   |-> Put({"quotation"}),
   sendQuotation        |-> Put({"quotation"}),
   convertToReservation |-> Put({"quotation", "reservation"}),
   declineQuotation     |-> Put({"quotation"}),
   deleteQuotation      |-> Put({"quotation"}),
   getPdfBlob           |-> Get({"quotation"})]

QuotationsState ==
  {Shown([rows |-> None, page |-> 0, loading |-> TRUE, error |-> FALSE, sending |-> None,
          toDecline |-> None, toDelete |-> None, busy |-> FALSE])}

LoadQuotations == Loads({"getAllQuotations"}, {"page"}, {[rows |-> Answer]})

(* The answer may say that the mail could not be sent.                     *)
SendQuotation ==
  Handler([takes  |-> Rows,
           except |-> {"sending"},
           start  |-> [sending |-> Arg],
           steps  |-> <<Await([calls |-> {"sendQuotation"},
                               then  |-> {[rows |-> Patched] @@ e : e \in {Done, Sorry}}])>>,
           fail   |-> Sorry,
           final  |-> [sending |-> None]])

ConvertQuotation ==
  Handler([reads |-> {"page"},
           steps |-> <<Await([calls |-> {"convertToReservation"}, then |-> {Done}]),
                       Inline(LoadQuotations)>>,
           fail  |-> Sorry])

(* Confirmed in a dialog: the target, the call.                            *)
ConfirmQuotation(target, call) ==
  Handler([needs |-> <<Unless({target :> {"r1"}}, Nothing)>>,
           reads |-> {"page"},
           start |-> [busy |-> TRUE],
           steps |-> <<Await([calls |-> {call}, then |-> {Done}]), Inline(LoadQuotations)>>,
           fail  |-> Sorry,
           final |-> [busy |-> FALSE] @@ target :> None])

QuotationsHandlers ==
  [load        |-> LoadQuotations,
   previous    |-> Does([page |-> 0]),
   next        |-> Does([page |-> 1]),
   toNew       |-> Goes("/quotations/new"),
   open        |-> Goes("/quotations/:id"),
   send        |-> SendQuotation,
   convertOne  |-> ConvertQuotation,
   convertMany |-> Goes("/quotations/:id"),
   askDecline  |-> Does([toDecline |-> "r1"]),
   keep        |-> Does([toDecline |-> None]),
   decline     |-> ConfirmQuotation("toDecline", "declineQuotation"),
   askDelete   |-> Does([toDelete |-> "r1"]),
   close       |-> Does([toDelete |-> None]),
   delete      |-> ConfirmQuotation("toDelete", "deleteQuotation")]

QuotationsControls ==
  LET top    == [toDecline |-> {None}, toDelete |-> {None}]
      listed == top @@ [loading |-> {FALSE}, error |-> {FALSE}]
      idle   == {[busy |-> {FALSE}]}
  IN  Within(top, [toNew |-> Always, load |-> {[loading |-> {FALSE}, error |-> {TRUE}]}])
   @@ Within(listed, [h \in {"open", "send", "convertOne", "convertMany", "askDecline",
                             "askDelete"} |-> Always])
   @@ Within(listed, [previous |-> {[page |-> {1}]}, next |-> {[page |-> {0}]}])
   @@ Within([toDecline |-> {"r1"}], [keep |-> Always, decline |-> idle])
   @@ Within([toDelete |-> {"r1"}], [close |-> Always, delete |-> idle])

Quotations ==
  ScreenOf([states   |-> QuotationsState,
            handlers |-> QuotationsHandlers,
            controls |-> QuotationsControls,
            effects  |-> <<[run |-> "load", deps |-> {"page"}]>>,
            data     |-> [rows |-> {"quotation"}],
            outrun   |-> {"rows"}, \* of two loads the last answer stays
            again    |-> {"convertOne", \* the link in a row has no busy state
                          "send"}, \* one row at a time is marked busy
            busy     |-> {"loading", "busy"},
            alerts   |-> {"error"}])

(***************************************************************************)
(* QuotationDetail.tsx with QuotationPdfPreviewDialog.tsx                  *)
(***************************************************************************)
PreviewState == [previewLoading |-> TRUE, previewError |-> FALSE]

(* The blob is shown unless the dialog was closed meanwhile.               *)
LoadPreview ==
  Handler([part   |-> "preview",
           needs  |-> <<Unless({[preview |-> {"open"}]}, Nothing)>>,
           latest |-> "run",
           steps  |-> <<Await([calls |-> {"getPdfBlob"}])>>,
           fail   |-> [previewError |-> TRUE],
           final  |-> [previewLoading |-> FALSE]])

QuotationDetailState ==
  {Shown([id |-> "r1", quotation |-> None, loading |-> TRUE, error |-> FALSE, busy |-> FALSE,
          preview |-> None, declining |-> FALSE, removing |-> FALSE, converting |-> FALSE]
         @@ PreviewState)}

LoadQuotation == Loads({"getQuotationById"}, {"id"}, {[quotation |-> Answer]})

QuotationDetailHandlers ==
  LET busied(call, then, more) ==
        Handler([start |-> [busy |-> TRUE],
                 steps |-> <<Await([calls |-> {call}, then |-> then])>>,
                 fail  |-> Sorry,
                 final |-> [busy |-> FALSE] @@ more])
  IN [load          |-> LoadQuotation,
      back          |-> Goes("/quotations"),
      edit          |-> Goes("/quotations/:id/edit"),
      openPreview   |-> Does([preview |-> "open"]),
      closePreview  |-> Does([preview |-> None]),
      loadPreview   |-> LoadPreview,
      send          |-> busied("sendQuotation",
                               {[quotation |-> Patched] @@ e : e \in {Done, Sorry}}, Nothing),
      convert       |-> busied("convertToReservation",
                               {Done @@ [goto |-> "/reservations/:id"]}, [converting |-> FALSE]),
      chooseOption  |-> Does([converting |-> TRUE]),
      convertChosen |-> busied("convertToReservation",
                               {Done @@ [goto |-> "/reservations/:id"]}, [converting |-> FALSE]),
      closeConvert  |-> Does([converting |-> FALSE]),
      duplicate     |-> busied("duplicateQuotation", {Done @@ [id |-> "r2"]}, Nothing),
      askDecline    |-> Does([declining |-> TRUE]),
      keep          |-> Does([declining |-> FALSE]),
      decline       |-> busied("declineQuotation", {Done @@ [quotation |-> Patched]},
                               [declining |-> FALSE]),
      askDelete     |-> Does([removing |-> TRUE]),
      close         |-> Does([removing |-> FALSE]),
      delete        |-> Handler([start |-> [busy |-> TRUE],
                                 steps |-> <<Await([calls |-> {"deleteQuotation"},
                                               then |-> {Done @@ [goto |-> "/quotations"]}])>>,
                                 fail  |-> Sorry @@ [busy |-> FALSE, removing |-> FALSE]])]

(* One option: convert at once; several: choose in the dialog.  A copy is  *)
(* not copied again: two quotations are enough.                            *)
QuotationDetailControls ==
  LET ready  == [loading |-> {FALSE}, error |-> {FALSE}]
      top    == ready @@ [preview |-> {None}, declining |-> {FALSE}, removing |-> {FALSE},
                          converting |-> {FALSE}]
      idle   == {[busy |-> {FALSE}]}
  IN  ("load" :> {[loading |-> {FALSE}, error |-> {TRUE}]})
   @@ Within(top, "back" :> Always @@
                  [h \in {"edit", "openPreview", "send", "convert", "chooseOption",
                          "askDecline", "askDelete"} |-> idle]
               @@ [duplicate |-> {p @@ [id |-> {"r1"}] : p \in idle}])
   @@ Within(ready @@ [preview |-> {"open"}], "closePreview" :> Always)
   @@ Within(ready @@ [converting |-> {TRUE}], [closeConvert |-> Always, convertChosen |-> idle])
   @@ Within(ready @@ [declining |-> {TRUE}], [keep |-> Always, decline |-> idle])
   @@ Within(ready @@ [removing |-> {TRUE}], [close |-> Always, delete |-> idle])

QuotationDetail ==
  ScreenOf([states   |-> QuotationDetailState,
            handlers |-> QuotationDetailHandlers,
            controls |-> QuotationDetailControls,
            effects  |-> <<[run |-> "load", deps |-> {"id"}],
                           [run |-> "loadPreview", deps |-> {"preview"}]>>,
            parts    |-> [preview |-> PreviewState],
            data     |-> [quotation |-> {"quotation"}],
            busy     |-> {"loading", "busy"},
            alerts   |-> {"error", "previewError"}])

(***************************************************************************)
(* Parts of the forms: the guest that is searched for, the rooms.          *)
(***************************************************************************)

(* A guest is looked up when typing pauses; a look-up under way is not     *)
(* cancelled by the next one.                                              *)
LookUp(query, found, reset) ==
  Handler([latest |-> "timer",
           reads  |-> {query},
           steps  |-> <<Await(Nothing),
                        Await([needs |-> <<Unless({query :> {"x"}}, found :> None)>>,
                               calls |-> {"searchGuests"},
                               then  |-> {found :> Answer},
                               fail  |-> reset])>>])

(* The prices of the rooms for the dates; a change of the dates cancels.   *)
ResolvePrices ==
  Handler([latest |-> "run",
           reads  |-> {"dates"},
           needs  |-> <<Unless({[dates |-> {"free", "taken"}]}, [prices |-> None])>>,
           steps  |-> <<Await([calls |-> {"getAvailableRooms"},
                               then  |-> {[prices |-> Answer]},
                               fail  |-> [prices |-> None]])>>])

(* RoomSelection.tsx.  One room; on the dates "taken" a known reservation  *)
(* has it, and its button is disabled.                                     *)
RoomSelection ==
  [setDates |-> Always,
   pickRoom |-> {[dates |-> {"none", "bad", "free"}], [known |-> {FALSE}]},
   dropRoom |-> {[dates |-> {"none", "bad", "free"}], [known |-> {FALSE}]}]

RoomSelectionHandlers ==
  [setDates |-> Sets("dates", {"none", "bad", "free", "taken"}),
   pickRoom |-> Does([room |-> TRUE]),
   dropRoom |-> Does([room |-> FALSE])]

(***************************************************************************)
(* ReservationForm.tsx with GuestSearchAndCreate.tsx                       *)
(***************************************************************************)
ReservationFormState ==
  {Shown([mode |-> m, loading |-> FALSE, fetching |-> FALSE, error |-> FALSE,
          guest |-> None, query |-> "", found |-> None, creating |-> FALSE, saving |-> FALSE,
          guestError |-> FALSE, dates |-> "none", room |-> FALSE, known |-> FALSE,
          prices |-> None]) : m \in {"new", "edit", "view"}}

LoadReservationForm ==
  Handler([start |-> [fetching |-> TRUE, error |-> FALSE],
           steps |-> <<Await([calls |-> {"getAllRooms"}]),
                       Await([calls |-> {"getAllReservations"}, then |-> {[known |-> TRUE]}]),
                       Await([needs |-> <<Unless({[mode |-> {"edit", "view"}]}, Nothing)>>,
                              calls |-> {"getReservationById"},
                              then  |-> {[dates |-> "free", room |-> TRUE]}]),
                       Await([calls |-> {"getGuestById"},
                              then  |-> {[guest |-> "g"]},
                              fail  |-> [guest |-> "g"],
                              stop  |-> FALSE])>>,
           fail  |-> [error |-> TRUE],
           final |-> [fetching |-> FALSE]])

SubmitReservation ==
  LET wrong == [error |-> TRUE] IN
  Handler([needs |-> <<Unless({[mode |-> {"new", "edit"}]}, Nothing),
                       Unless({[guest |-> {"g"}]}, wrong),
                       Unless({[room |-> {TRUE}]}, wrong),
                       Unless({[dates |-> {"free", "taken"}]}, wrong),
                       Unless({[dates |-> {"free"}], [known |-> {FALSE}]}, wrong)>>,
           start |-> [loading |-> TRUE, error |-> FALSE],
           steps |-> <<Await([calls |-> {"updateReservation", "createReservation"},
                              then  |-> {[goto |-> "/reservations"]}])>>,
           fail  |-> [error |-> TRUE],
           final |-> [loading |-> FALSE]])

CreateGuest ==
  Handler([start |-> [saving |-> TRUE, guestError |-> FALSE],
           steps |-> <<Await([calls |-> {"createGuest"},
                              then  |-> {[guest |-> "g", creating |-> FALSE, query |-> ""]}])>>,
           fail  |-> [guestError |-> TRUE],
           final |-> [saving |-> FALSE]])

ReservationFormHandlers ==
  RoomSelectionHandlers @@
  [load         |-> LoadReservationForm,
   resolve      |-> ResolvePrices,
   back         |-> Goes("/reservations"),
   submit       |-> SubmitReservation,
   clearGuest   |-> Does([guest |-> None]),
   type         |-> Sets("query", {"", "x"}),
   lookUp       |-> LookUp("query", "found", Nothing),
   select       |-> Does([guest |-> "g", query |-> ""]),
   startCreate  |-> Does([creating |-> TRUE]),
   cancelCreate |-> Does([creating |-> FALSE]),
   createGuest  |-> CreateGuest]

(* The three faces of the guest step: chosen, being created, searched.     *)
GuestSearchAndCreate ==
  LET edits == [mode |-> {"new", "edit"}] IN
  [clearGuest   |-> {edits @@ [guest |-> {"g"}]},
   cancelCreate |-> {[guest |-> {None}, creating |-> {TRUE}]},
   createGuest  |-> {[guest |-> {None}, creating |-> {TRUE}, saving |-> {FALSE}]},
   type         |-> {edits @@ [guest |-> {None}, creating |-> {FALSE}]},
   startCreate  |-> {edits @@ [guest |-> {None}, creating |-> {FALSE}]}]

ReservationFormControls ==
  Within([fetching |-> {FALSE}],
    GuestSearchAndCreate
    @@ Within([mode |-> {"new", "edit"}],
         RoomSelection
         @@ ("submit" :> {[loading |-> {FALSE}, guest |-> {"g"}, room |-> {TRUE},
                           dates |-> {"bad", "free", "taken"}]}))
    @@ [back   |-> Always,
        select |-> {[guest |-> {None}, creating |-> {FALSE}, query |-> {"x"},
                     found |-> {[q |-> [query |-> "x"], fresh |-> f] : f \in BOOLEAN}]}])

ReservationForm ==
  ScreenOf([states   |-> ReservationFormState,
            handlers |-> ReservationFormHandlers,
            controls |-> ReservationFormControls,
            effects  |-> <<[run |-> "load",    deps |-> {}],
                           [run |-> "resolve", deps |-> {"dates"}],
                           [run |-> "lookUp",  deps |-> {"query"}]>>,
            data     |-> [prices |-> {"rate", "room"}],
            busy     |-> {"loading", "fetching", "saving"},
            alerts   |-> {"error", "guestError"}])

(***************************************************************************)
(* QuotationForm.tsx                                                       *)
(* The options are a count and whether each has rooms, at most MaxOptions  *)
(* of them (5 in the code); which of them is looked at is left out.  Dates *)
(* in the wrong order are refused like missing ones.                       *)
(***************************************************************************)
MaxOptions == 2

QuotationFormState ==
  {Shown([edit |-> e, fetching |-> FALSE, loading |-> FALSE, error |-> FALSE, known |-> FALSE,
          mode |-> "guest", guest |-> None, query |-> "", found |-> None, prospect |-> "bad",
          dates |-> "none", prices |-> None, options |-> 1, room |-> FALSE])
     : e \in BOOLEAN}

LoadQuotationForm ==
  Handler([start |-> [fetching |-> TRUE, error |-> FALSE],
           steps |-> <<Await([calls |-> {"getAllRooms", "getAllReservations", "getQuotationById"},
                              then  |-> {[known |-> TRUE]}]),
                       Await([needs |-> <<Unless({[edit |-> {TRUE}]}, Nothing)>>,
                              begin |-> [dates |-> "free", room |-> TRUE],
                              calls |-> {"getGuestById"},
                              then  |-> {[mode |-> "guest", guest |-> "g"],
                                         [mode |-> "prospect", prospect |-> "good"]}])>>,
           fail  |-> [error |-> TRUE],
           final |-> [fetching |-> FALSE]])

SubmitQuotation ==
  LET wrong == [error |-> TRUE] IN
  Handler([needs |-> <<Unless({[mode |-> {"guest"}, guest |-> {"g"}],
                               [mode |-> {"prospect"}, prospect |-> {"good"}]}, wrong),
                       Unless({[room |-> {TRUE}]}, wrong),
                       Unless({[dates |-> {"free", "taken"}]}, wrong)>>,
           start |-> [loading |-> TRUE, error |-> FALSE],
           steps |-> <<Await([calls |-> {"updateQuotation", "createQuotation"},
                              then  |-> {Done @@ [goto |-> "/quotations"]}])>>,
           fail  |-> [error |-> TRUE],
           final |-> [loading |-> FALSE]])

QuotationFormHandlers ==
  ("setDates" :> Sets("dates", {"none", "free", "taken"})) @@ RoomSelectionHandlers @@
  [load         |-> LoadQuotationForm,
   resolve      |-> ResolvePrices,
   lookUp       |-> LookUp("query", "found", [found |-> None]),
   type         |-> Sets("query", {"", "x"}),
   select       |-> Does([guest |-> "g", query |-> "", found |-> None]),
   clearGuest   |-> Does([guest |-> None]),
   guestMode    |-> Does([mode |-> "guest"]),
   prospectMode |-> Does([mode |-> "prospect"]),
   fillProspect |-> Sets("prospect", {"bad", "good"}),
   addOption    |-> Does([options |-> MaxOptions, room |-> FALSE]),
   removeOption |-> Handler([takes |-> BOOLEAN,
                             start |-> [options |-> 1, room |-> Arg]]),
   back         |-> Goes("/quotations"),
   submit       |-> SubmitQuotation]

QuotationFormControls ==
  Within([fetching |-> {FALSE}],
    RoomSelection @@
    [back         |-> Always,
     submit       |-> {[loading |-> {FALSE}]},
     guestMode    |-> Always,
     prospectMode |-> Always,
     clearGuest   |-> {[mode |-> {"guest"}, guest |-> {"g"}]},
     type         |-> {[mode |-> {"guest"}, guest |-> {None}]},
     select       |-> {[mode |-> {"guest"}, guest |-> {None}, query |-> {"x"},
                        found |-> {[q |-> [query |-> "x"], fresh |-> f] : f \in BOOLEAN}]},
     fillProspect |-> {[mode |-> {"prospect"}]},
     addOption    |-> {[options |-> {1}]},
     removeOption |-> {[options |-> {MaxOptions}]}])

QuotationForm ==
  ScreenOf([states   |-> QuotationFormState,
            handlers |-> QuotationFormHandlers,
            controls |-> QuotationFormControls,
            effects  |-> <<[run |-> "load",    deps |-> {}],
                           [run |-> "resolve", deps |-> {"dates"}],
                           [run |-> "lookUp",  deps |-> {"query"}]>>,
            data     |-> [prices |-> {"rate", "room"}],
            busy     |-> {"loading", "fetching"},
            alerts   |-> {"error"}])

(***************************************************************************)
(* Stays.tsx with StayRow.tsx and StayStatusChip.tsx.  The status, the     *)
(* search and the order filter and sort the page that was loaded.          *)
(***************************************************************************)
StayCalls ==
  [getAllStays          |-> Get({"stay"}),
   getStayById          |-> Get({"stay"}),
   createStay           |-> Put({"stay", "reservation", "room", "invoice"}),
   checkOut             |-> Put({"stay", "reservation", "room"}),
   retryInvoiceCreation |-> Put({"stay", "invoice"}),
   retryCheckoutEmail   |-> Put({"stay"}),
   getHotelSettings     |-> Get({"hotel"}),
   updateHotelSettings  |-> [reads |-> {"hotel"}, writes |-> {"hotel"}],
   getLastCompletedStayForGuest |-> Get({"stay"}),
   getCleanRooms        |-> Get({"room"})]

StaysState ==
  {Shown([rows |-> None, page |-> 0, loading |-> TRUE, error |-> FALSE, filter |-> "",
          checkingOut |-> None, retryingInvoice |-> None, retryingEmail |-> None])}

LoadStays == Loads({"getAllStays"}, {"page"}, {[rows |-> Answer]})

(* A command on one stay: the answer replaces its row.                     *)
OnStay(call, flag) ==
  Handler([takes  |-> Rows,
           except |-> {flag},
           start  |-> flag :> Arg,
           steps  |-> <<Await([calls |-> {call}, then |-> {Done @@ [rows |-> Patched]}])>>,
           fail   |-> Sorry,
           final  |-> flag :> None])

StaysHandlers ==
  [load         |-> LoadStays,
   checkOut     |-> OnStay("checkOut", "checkingOut"),
   retryInvoice |-> OnStay("retryInvoiceCreation", "retryingInvoice"),
   retryEmail   |-> OnStay("retryCheckoutEmail", "retryingEmail"),
   filter       |-> Sets("filter", {"", "x"}),
   newCheckIn   |-> Goes("/reservations"),
   walkIn       |-> Goes("/stays/walk-in"),
   guest        |-> Goes("/guests"),
   previous     |-> Does([page |-> 0]),
   next         |-> Does([page |-> 1])]

StayRow == [h \in {"checkOut", "retryInvoice", "retryEmail", "guest"} |-> Always]

StaysControls ==
  Within([loading |-> {FALSE}, error |-> {FALSE}],
    StayRow @@ [previous |-> {[page |-> {1}]}, next |-> {[page |-> {0}]}])
  @@ [filter |-> Always, newCheckIn |-> Always, walkIn |-> Always,
      load   |-> {[loading |-> {FALSE}, error |-> {TRUE}]}]

Stays ==
  ScreenOf([states   |-> StaysState,
            handlers |-> StaysHandlers,
            controls |-> StaysControls,
            effects  |-> <<[run |-> "load", deps |-> {"page"}]>>,
            data     |-> [rows |-> {"stay"}],
            again    |-> {"checkOut", "retryInvoice", "retryEmail"}, \* one row at a time is marked busy
            busy     |-> {"loading"},
            alerts   |-> {"error"}])

(***************************************************************************)
(* CheckInForm.tsx and WalkInCheckInForm.tsx with GuestFieldSection.tsx    *)
(* and stayGuestFieldHelpers.ts.  The guest's fields are "empty",          *)
(* "partial" (the names only), "typed" or complete from the last stay      *)
(* ("filled").                                                             *)
(***************************************************************************)
GuestFields == {"empty", "partial", "typed", "filled"}
validateCheckInGuests == [guest |-> {"typed", "filled"}]

CheckInFormState ==
  {Shown([context |-> c, loading |-> FALSE, error |-> FALSE, guest |-> "empty",
          prefilled |-> FALSE, occupants |-> 1]) : c \in BOOLEAN}

(* What the last stay and the profile say fills the fields, whatever the   *)
(* user typed meanwhile; a failure of either fills less.                   *)
Prefill ==
  Handler([needs |-> <<Unless({[context |-> {TRUE}]}, Nothing)>>,
           steps |-> <<Await([calls |-> {"getLastCompletedStayForGuest", "getGuestById"},
                              then  |-> {Nothing, [guest |-> "filled", prefilled |-> TRUE],
                                         [guest |-> "partial", prefilled |-> TRUE]}])>>])

CompleteCheckIn ==
  LET wrong == [error |-> TRUE] IN
  Handler([needs |-> <<Unless({[context |-> {TRUE}]}, wrong),
                       Unless({validateCheckInGuests}, wrong)>>,
           start |-> [error |-> FALSE, loading |-> TRUE],
           steps |-> <<Await([calls |-> {"createStay"}, then |-> {[goto |-> "/stays"]}])>>,
           fail  |-> wrong,
           final |-> [loading |-> FALSE]])

CheckInFormHandlers ==
  [prefill   |-> Prefill,
   fill      |-> Sets("guest", {"empty", "typed"}),
   occupants |-> Sets("occupants", 1..2),
   back      |-> Goes("back"),
   submit    |-> CompleteCheckIn]

CheckInFormControls ==
  [fill |-> Always, occupants |-> Always, back |-> Always, submit |-> {[loading |-> {FALSE}]}]

CheckInForm ==
  ScreenOf([states   |-> CheckInFormState,
            handlers |-> CheckInFormHandlers,
            controls |-> CheckInFormControls,
            effects  |-> <<[run |-> "prefill", deps |-> {}]>>,
            busy     |-> {"loading"},
            alerts   |-> {"error"}])

WalkInState ==
  {Shown([rooms |-> FALSE, roomsLoading |-> TRUE, room |-> FALSE, query |-> "", found |-> None,
          selected |-> FALSE, dates |-> "none", occupants |-> 1, guest |-> "empty",
          error |-> FALSE, loading |-> FALSE])}

LoadCleanRooms ==
  Handler([start |-> [roomsLoading |-> TRUE],
           steps |-> <<Await([calls |-> {"getCleanRooms"},
                              then  |-> {[rooms |-> TRUE], [rooms |-> FALSE]}])>>,
           fail  |-> [rooms |-> FALSE],
           final |-> [roomsLoading |-> FALSE]])

SubmitWalkIn ==
  LET wrong == [error |-> TRUE] IN
  Handler([needs |-> <<Unless({[room |-> {TRUE}]}, wrong),
                       Unless({[selected |-> {TRUE}]}, wrong),
                       Unless({[dates |-> {"good"}]}, wrong),
                       Unless({validateCheckInGuests}, wrong)>>,
           start |-> [error |-> FALSE, loading |-> TRUE],
           steps |-> <<Await([calls |-> {"createStay"},
                              then  |-> {Done @@ [goto |-> "/stays"]}])>>,
           fail  |-> wrong,
           final |-> [loading |-> FALSE]])

(* Typing starts the pause anew and forgets the guest; a short query only  *)
(* clears what was found.                                                  *)
WalkInHandlers ==
  [load      |-> LoadCleanRooms,
   pickRoom  |-> Handler([takes |-> BOOLEAN, start |-> [room |-> Arg, occupants |-> 1]]),
   type      |-> Handler([latest |-> "timer",
                          start |-> [query |-> "x", selected |-> FALSE],
                          steps |-> <<Await(Nothing),
                                      Await([calls |-> {"searchGuests"},
                                             then  |-> {[found |-> "x"]},
                                             fail  |-> [found |-> None]])>>]),
   erase     |-> Handler([cancels |-> {"type"},
                          start |-> [query |-> "", selected |-> FALSE, found |-> None]]),
   select    |-> Handler([takes |-> {"partial", "typed"},
                          start |-> [selected |-> TRUE, found |-> None, guest |-> Arg]]),
   setDates  |-> Sets("dates", {"none", "good"}),
   occupants |-> Sets("occupants", 1..2),
   fill      |-> Sets("guest", {"empty", "typed"}),
   back      |-> Goes("/stays"),
   submit    |-> SubmitWalkIn]

WalkInControls ==
  [pickRoom  |-> {[roomsLoading |-> {FALSE}, rooms |-> {TRUE}]},
   type      |-> Always,
   erase     |-> {[query |-> {"x"}]},
   select    |-> {[found |-> {"x"}]},
   setDates  |-> Always,
   occupants |-> {[room |-> {TRUE}]},
   fill      |-> Always,
   back      |-> Always,
   submit    |-> {[loading |-> {FALSE}, rooms |-> {TRUE}]}]

WalkInCheckInForm ==
  ScreenOf([states   |-> WalkInState,
            handlers |-> WalkInHandlers,
            controls |-> WalkInControls,
            effects  |-> <<[run |-> "load", deps |-> {}]>>,
            busy     |-> {"roomsLoading", "loading"},
            alerts   |-> {"error"}])
=============================================================================
