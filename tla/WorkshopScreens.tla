-------------------------- MODULE WorkshopScreens ---------------------------
(***************************************************************************)
(* The daily work of a repair shop: the order, its reception, the boards   *)
(* and reports of orders, the directory of customers, the team and its     *)
(* branches, and signing in (src/frontend/src/fixi).  The downloads of     *)
(* these pages change nothing and are left out.                            *)
(***************************************************************************)
EXTENDS ShopScreens

(* A change of the status leaves a line in the history; one that ends the  *)
(* order consumes or releases the parts that are held for it.              *)
WorkshopCalls ==
  [listServiceOrders  |-> Get({"order"}),
   updateServiceOrder |-> Put({"order", "work"}),
   advanceConfiguredOrderWorkflow |-> Put({"order", "work", "reservedStock", "stock"}),
   quoteServiceOrder  |-> Put({"order", "work"}),
   authorizeServiceOrder |-> Put({"order", "work"}),
   rejectServiceOrder |-> Put({"order", "work"}),
   deliverServiceOrder |-> Put({"order", "work", "reservedStock"}),
   createServiceOrder |-> Put({"order"}),
   addServiceOrderNote |-> Put({"work"}),
   addRepairTest      |-> Put({"order", "work"}),
   addTimeEntry       |-> Put({"work"}),
   addEvidence        |-> Put({"work"}),
   openWarrantyClaim  |-> Put({"work"}),
   closeWarrantyClaim |-> Put({"work"}),
   orderPanels        |-> Get({"work"}),
   issuePortalToken   |-> Put({"token"}),
   reserveStock       |-> Put({"reservedStock", "stock"}),
   releaseStock       |-> Put({"reservedStock", "stock"}),
   listOrderStockReservations |-> Get({"reservedStock"}),
   potentialCustomerDuplicate |-> Get({"customer"})]

TeamCalls ==
  [createBranch     |-> Put({"branch"}),
   updateBranch     |-> Put({"branch"}),
   setBranchActive  |-> Put({"branch"}),
   selectBranch     |-> Put({"session"}),
   listBranchMembers |-> Get({"member"}),
   assignUserBranch |-> Put({"member"}),
   removeUserBranch |-> Put({"member"}),
   inviteUser       |-> Put({"invitation"}),
   activateUser     |-> Put({"user"}),
   listUserCapabilityGrants |-> Get({"grant"}),
   setUserCapabilityGrant   |-> Put({"grant"}),
   completeOnboarding |-> Put({"account"})]

InboxCalls ==
  [whatsappStatus  |-> Get({"line"}),
   whatsappConnect |-> Put({"line"}),
   whatsappConversations |-> Get({"conversation"}),
   whatsappHandoff |-> Put({"conversation"}),
   whatsappMessages |-> Get({"message"}),
   whatsappReply   |-> Put({"message"}),
   assistantChat   |-> Get({})]

SignInCalls ==
  [login            |-> Put({"session"}),
   signup           |-> Put({"account"}),
   verifyEmail      |-> Put({"account"}),
   forgotPassword   |-> Put({}),
   resetPassword    |-> Put({"user"}),
   acceptInvitation |-> Put({"user"}),
   portalOperation  |-> Get({"token"}),
   portalDocuments  |-> Get({"work"}),
   portalOtp        |-> Put({"challenge"}),
   portalVerify     |-> Put({"challenge"}),
   portalAuthorize  |-> Put({"order"})]

(***************************************************************************)
(* useAsync: a query keeps its data, its error and whether it is loading.  *)
(* It catches its own failures and nothing drops the answer of an earlier  *)
(* run.  Queries whose results a screen does not tell apart are one here.  *)
(***************************************************************************)
QueryOf(calls, reads, data, loading, error) ==
  Handler([reads |-> reads,
           start |-> (loading :> TRUE) @@ (error :> FALSE),
           steps |-> <<Await([calls |-> calls, then |-> {data :> Answer}])>>,
           fail  |-> error :> TRUE,
           final |-> loading :> FALSE])
Query(calls, reads, data) == QueryOf(calls, reads, data, "loading", "error")

(* A change that is followed by a reload, which catches its own failure.   *)
Changes(call, busy, then, reload) ==
  Handler([start |-> (busy :> TRUE) @@ [problem |-> FALSE],
           steps |-> <<Await([calls |-> {call}, then |-> {Done @@ then}])>> \o reload,
           fail  |-> [problem |-> TRUE],
           final |-> busy :> FALSE])

(***************************************************************************)
(* order-detail.tsx: the repair order.  It is loaded again after every     *)
(* change; panels that cannot be loaded are named and stay empty.  The     *)
(* parts that are held for the order are a component of their own in it    *)
(* (order-stock-reservations.tsx), with its own error: it loads them again *)
(* when the page has reserved one, after no other change of the order.     *)
(***************************************************************************)
OrderStatuses == {"DIAGNOSIS", "QUOTED", "QA", "COMPLETED"}

LoadOrder ==
  <<Await([calls |-> {"getServiceOrder"},
           begin |-> [error |-> FALSE, order |-> None],
           then  |-> {[order |-> Answer, status |-> s] : s \in OrderStatuses},
           fail  |-> [error |-> TRUE],
           stop  |-> FALSE]),
    Await([calls |-> {"orderPanels"},
           needs |-> <<Unless({[order |-> Loaded]}, Nothing)>>,
           then  |-> {[panels |-> Answer], [panels |-> None, error |-> TRUE]},
           fail  |-> [panels |-> None, error |-> TRUE],
           stop  |-> FALSE])>>
LoadServiceOrder == Handler([steps |-> LoadOrder])

(* What an action refuses before it calls anything it reports as if the    *)
(* call had been refused.                                                  *)
Perform(call, reload) ==
  Handler([needs |-> <<Unless({[saving |-> {FALSE}]}, Nothing)>>,
           start |-> [saving |-> TRUE, error |-> FALSE],
           steps |-> <<Await([calls |-> {call}])>> \o reload,
           fail  |-> [error |-> TRUE],
           final |-> [saving |-> FALSE]])
Performs(call) == Perform(call, LoadOrder)

SaveProgress == [Performs("updateServiceOrder") EXCEPT !.needs = <<>>]
SaveQuote ==
  [Performs("quoteServiceOrder") EXCEPT
     !.needs = <<Unless({[order |-> Loaded, status |-> {"DIAGNOSIS"}]}, [error |-> TRUE])>> \o @]
CreateCustomerPortalLink == Perform("issuePortalToken", <<>>)
(* Mutant: the revision stays, so the parts are not loaded again. *)
ReserveUnseen ==
  [Performs("reserveStock") EXCEPT !.takes = 0..1, !.except = {"reservationRevision"}]
ReservePart ==
  [Performs("reserveStock") EXCEPT
     !.takes = 0..1, !.except = {"reservationRevision"},
     !.steps[1].then = {[reservationRevision |-> Arg]}]

LoadHeldParts ==
  Handler([start |-> [partsError |-> FALSE],
           steps |-> <<Await([calls |-> {"listOrderStockReservations", "listProducts"},
                              then  |-> {[reservations |-> Answer]}])>>,
           fail  |-> [partsError |-> TRUE]])
(* Mutant: the row is not marked while it is released. *)
ReleaseUnmarked ==
  Handler([start |-> [partsError |-> FALSE],
           steps |-> <<Await([calls |-> {"releaseStock"}]), Inline(LoadHeldParts)>>,
           fail  |-> [partsError |-> TRUE]])
(* Mutant: the row stays marked when it is released. *)
ReleaseStuck ==
  Handler([start |-> [busyId |-> TRUE, partsError |-> FALSE],
           steps |-> <<Await([calls |-> {"releaseStock"}]), Inline(LoadHeldParts)>>,
           fail  |-> [partsError |-> TRUE, busyId |-> FALSE]])
Release ==
  Handler([start |-> [busyId |-> TRUE, partsError |-> FALSE],
           steps |-> <<Await([calls |-> {"releaseStock"}]), Inline(LoadHeldParts)>>,
           fail  |-> [partsError |-> TRUE],
           final |-> [busyId |-> FALSE]])

OrderHandlers ==
  [load      |-> LoadServiceOrder,
   save      |-> SaveProgress,
   advance   |-> Performs("advanceConfiguredOrderWorkflow"),
   saveQuote |-> SaveQuote,
   authorize |-> Performs("authorizeServiceOrder"),
   reject    |-> Performs("rejectServiceOrder"),
   link      |-> CreateCustomerPortalLink,
   saveTest  |-> Performs("addRepairTest"),
   saveNote  |-> Performs("addServiceOrderNote"),
   reserve   |-> ReservePart,
   addTime   |-> Performs("addTimeEntry"),
   addDocument  |-> Performs("addEvidence"),
   deliver      |-> Performs("deliverServiceOrder"),
   openWarranty |-> Performs("openWarrantyClaim"),
   closeWarranty |-> Performs("closeWarrantyClaim"),
   share     |-> Does([error |-> TRUE]),  \* no telephone, or no new tab
   parts     |-> LoadHeldParts,
   release   |-> Release,
   retry     |-> Does(Runs("parts"))]

(* The forms are rendered before the order is there, the buttons that      *)
(* depend on its state are not.                                            *)
OrderControls ==
  LET idle == [saving |-> {FALSE}]
      in(s) == {idle @@ [order |-> Loaded, status |-> s]}
      open(c) == {c @@ [order |-> Loaded, status |-> OrderStatuses \ {"COMPLETED"}],
                  c @@ [order |-> {None}]}
  IN  [h \in {"save", "saveQuote", "saveTest", "saveNote", "addDocument"} |-> {idle}]
   @@ [h \in {"authorize", "reject", "link"} |-> in({"QUOTED"})]
   @@ [h \in {"advance", "closeWarranty"} |-> {idle @@ [panels |-> Loaded]}]
   @@ [reserve |-> open(idle),
       release |-> open([reservations |-> Loaded, busyId |-> {FALSE}]),
       addTime |-> Always,
       deliver |-> in({"QA"}),
       openWarranty |-> in({"COMPLETED"}),
       share   |-> {[order |-> Loaded, error |-> {FALSE}]},
       retry   |-> {[partsError |-> {TRUE}]}]

ServiceOrderDetail ==
  ScreenOf([states   |-> {Shown([order |-> None, status |-> "DIAGNOSIS", panels |-> None,
                                 saving |-> FALSE, error |-> FALSE, reservationRevision |-> 0,
                                 reservations |-> None, busyId |-> FALSE, partsError |-> FALSE])},
            handlers |-> OrderHandlers,
            controls |-> OrderControls,
            effects  |-> <<[run |-> "parts", deps |-> {"reservationRevision"}], OnMount("load")>>,
            data     |-> [order |-> {"order"}, panels |-> {"work"}, reservations |-> {"reservedStock"}],
            untold   |-> [reservations |-> {"advance", "deliver"}], \* consumed or released: not loaded again
            busy     |-> {"saving", "busyId"},
            alerts   |-> {"error", "partsError"}])

(***************************************************************************)
(* reception.tsx, in three parts: the search for the customer, the device, *)
(* and the branch with the order.  They share the chosen customer; a device *)
(* that was located chooses it, and looks for it by its name.  No part     *)
(* writes what another one lists.                                          *)
(***************************************************************************)
CreateCustomerQuickly ==
  Handler([needs |-> <<Unless({[quick |-> {"good"}]}, [problem |-> TRUE])>>,
           start |-> [saving |-> TRUE, problem |-> FALSE],
           steps |-> <<Await([calls |-> {"potentialCustomerDuplicate"},
                              then  |-> {Nothing,
                                         Stop @@ [customers |-> Answer, customerId |-> "r1",
                                                  search |-> "y", quick |-> None]}]),
                       Await([calls |-> {"createCustomer"},
                              then  |-> {[customers |-> Answer, customerId |-> "r2",
                                          search |-> "y", quick |-> None]}])>>,
           fail  |-> [problem |-> TRUE],
           final |-> [saving |-> FALSE]])

(* The owner of a device that was located.                                 *)
ChooseOwner ==
  Handler([start |-> [search |-> "x", customerId |-> "r1"],
           steps |-> <<Await([calls |-> {"getCustomer"},
                              then  |-> {[customers |-> Answer, search |-> "y"]},
                              fail  |-> [problem |-> TRUE],
                              stop  |-> FALSE])>>])

ReceptionCustomer ==
  LET listed == {[customers |-> Loaded]}
      quick  == [quick |-> {"bad", "good"}]
  IN ScreenOf([states   |-> {Shown([search |-> "", customers |-> None, searching |-> FALSE,
                                    customerId |-> None, quick |-> None, saving |-> FALSE,
                                    problem |-> FALSE])},
               handlers |-> [find   |-> TypedSearch("searchCustomers", "search", "customers",
                                                    "searching", [customers |-> None]),
                             type   |-> Handler([takes |-> Typed, except |-> {"search"},
                                                 start |-> [search |-> Arg, customerId |-> None,
                                                            problem |-> FALSE]]),
                             choose |-> Handler([takes |-> Rows \cup {None},
                                                 start |-> [customerId |-> Arg,
                                                            problem |-> FALSE]]),
                             open   |-> Handler([takes |-> {"bad", None}, except |-> {"quick"},
                                                 start |-> [quick |-> Arg, problem |-> FALSE]]),
                             fill   |-> Does([quick |-> "good"]),
                             create |-> CreateCustomerQuickly,
                             locate |-> ChooseOwner],
               controls |-> [type   |-> Always,
                             locate |-> Always,
                             choose |-> listed,
                             open   |-> {[saving |-> {FALSE}]},
                             fill   |-> {[quick |-> {"bad"}]},
                             create |-> {[quick |-> {"good"}, saving |-> {FALSE}]}],
               effects  |-> <<[run |-> "find", deps |-> {"search"}]>>,
               data     |-> [customers |-> {"customer"}],
               busy     |-> {"searching", "saving"},
               alerts   |-> {"problem"}])

(* A device that was located by its number brings its owner with it.       *)
SelectLocatedDevice(owner) ==
  Handler([start |-> [customerId |-> owner, deviceSearch |-> "", found |-> None,
                      deviceId |-> [q |-> [customerId |-> owner], fresh |-> TRUE]],
           steps |-> <<Await([calls |-> {"getCustomer"}, fail |-> [problem |-> TRUE],
                              stop  |-> FALSE])>>])
CreateDeviceQuickly ==
  Handler([needs |-> <<Unless({[customerId |-> Rows]}, [problem |-> TRUE])>>,
           reads |-> {"customerId"},
           start |-> [deviceSaving |-> TRUE, problem |-> FALSE],
           steps |-> <<Await([calls |-> {"createDevice"},
                              then  |-> {[devices |-> Patched, deviceId |-> Answer,
                                          quick |-> FALSE]}])>>,
           fail  |-> [problem |-> TRUE],
           final |-> [deviceSaving |-> FALSE]])
LoadCustomerDevices ==
  Handler([latest |-> "run",
           needs |-> <<Unless({[customerId |-> Rows]}, [devices |-> None, deviceId |-> None])>>,
           reads |-> {"customerId"},
           steps |-> <<Await([calls |-> {"listDevices"}, then |-> {[devices |-> Answer]}])>>,
           fail  |-> [problem |-> TRUE]])

ReceptionDevice ==
  ScreenOf([states   |-> {Shown([customerId |-> None, devices |-> None, deviceId |-> None,
                                 deviceSearch |-> "", found |-> None, deviceLoading |-> FALSE,
                                 quick |-> FALSE, deviceSaving |-> FALSE, problem |-> FALSE])},
            handlers |-> [search |-> TypedSearch("searchDevices", "deviceSearch", "found",
                                                 "deviceLoading", [found |-> None]),
                          type   |-> Handler([takes |-> {"", "x"}, except |-> {"deviceSearch"},
                                              start |-> [deviceSearch |-> Arg]]),
                          locateFirst |-> SelectLocatedDevice("r1"),
                          locateOther |-> SelectLocatedDevice("r2"),
                          customer |-> Handler([takes |-> Rows \cup {None},
                                                start |-> [customerId |-> Arg,
                                                           deviceId |-> None,
                                                           problem |-> FALSE]]),
                          load   |-> LoadCustomerDevices,
                          choose |-> Handler([copies |-> [deviceId |-> "devices"]]),
                          none   |-> Does([deviceId |-> None]),
                          open   |-> Handler([takes |-> BOOLEAN, except |-> {"quick"},
                                              start |-> [quick |-> Arg, problem |-> FALSE]]),
                          create |-> CreateDeviceQuickly],
            controls |-> [type     |-> Always,
                          customer |-> Always,
                          none     |-> {[deviceId |-> {[q |-> [customerId |-> c], fresh |-> f] :
                                                       c \in Rows, f \in BOOLEAN}]},
                          open     |-> {[customerId |-> Rows, deviceSaving |-> {FALSE}]},
                          choose   |-> {[devices |-> {[q |-> [customerId |-> c], fresh |-> f] :
                                                      c \in Rows, f \in BOOLEAN}]},
                          create   |-> {[quick |-> {TRUE}, deviceSaving |-> {FALSE}]}]
                      @@ [h \in {"locateFirst", "locateOther"} |->
                            {[found |-> {[q |-> [deviceSearch |-> "x"], fresh |-> f] :
                                         f \in BOOLEAN}]}],
            effects  |-> <<[run |-> "search", deps |-> {"deviceSearch"}],
                           [run |-> "load", deps |-> {"customerId"}]>>,
            data     |-> [devices |-> {"device"}, deviceId |-> {}, found |-> {"device"}],
            outrun   |-> {"devices", "deviceId"}, \* another customer's may come late
            untold   |-> [found |-> {"create"}],
            busy     |-> {"deviceLoading", "deviceSaving"},
            alerts   |-> {"problem"}])
(* The branch decides what the user may do and who may be assigned.  What  *)
(* was allowed in the former branch is shown until the new rights are there.*)
LoadBranchRights ==
  Handler([latest |-> "run", reads |-> {"branchId"},
           steps  |-> <<Await([calls |-> {"effectiveCapabilities"},
                               then  |-> {[rights |-> Answer, mayCreate |-> b] : b \in BOOLEAN}])>>,
           fail   |-> [problem |-> TRUE],
           final  |-> [rightsLoading |-> FALSE]])
LoadReception ==
  Handler([latest |-> "run",
           steps  |-> <<Await([calls |-> {"listBranches"},
                               then  |-> {[branches |-> Answer],
                                          [branches |-> Answer, branchId |-> "r1"],
                                          [branches |-> Answer, problem |-> TRUE]}])>>,
           fail   |-> [problem |-> TRUE],
           final  |-> [branchesLoading |-> FALSE]])
LoadTechnicians ==
  LET none == [technicians |-> None, techLoading |-> FALSE]
  IN Handler([latest |-> "run", reads |-> {"branchId"},
              needs  |-> <<Unless({[branchId |-> Rows]}, none)>>,
              start  |-> [technicians |-> None, techLoading |-> TRUE],
              steps  |-> <<Await([calls |-> {"listBranchMembers"},
                                  then  |-> {[technicians |-> Answer]}])>>,
              fail   |-> [technicians |-> None, problem |-> TRUE],
              final  |-> [techLoading |-> FALSE]])
SubmitReception ==
  Handler([needs |-> <<Unless({[rightsLoading |-> {FALSE}, mayCreate |-> {TRUE}, branchesLoading |-> {FALSE},
                                branchId |-> Rows, form |-> {"good"}]}, [problem |-> TRUE])>>,
           start |-> [saving |-> TRUE, problem |-> FALSE],
           steps |-> <<Await([calls |-> {"createServiceOrder"}, then |-> {[goto |-> "order"]}])>>,
           fail  |-> [problem |-> TRUE],
           final |-> [saving |-> FALSE]])

ReceptionOrder ==
  ScreenOf([states   |-> {Shown([branchId |-> None, branches |-> None, branchesLoading |-> TRUE,
                                 rights |-> None, mayCreate |-> FALSE, rightsLoading |-> TRUE,
                                 technicians |-> None, techLoading |-> FALSE, form |-> "bad",
                                 saving |-> FALSE, problem |-> FALSE])},
            handlers |-> [rights  |-> LoadBranchRights,
                          load    |-> LoadReception,
                          team    |-> LoadTechnicians,
                          branch  |-> Handler([takes |-> Rows \cup {None}, except |-> {"branchId"},
                                               start |-> [branchId |-> Arg]]),
                          fill    |-> Sets("form", {"bad", "good"}),
                          submit  |-> SubmitReception],
            controls |-> [branch |-> {[branchesLoading |-> {FALSE}, branches |-> Loaded]},
                          fill   |-> Always,
                          submit |-> {[saving |-> {FALSE}, rightsLoading |-> {FALSE},
                                       mayCreate |-> {TRUE}, branchesLoading |-> {FALSE},
                                       branchId |-> Rows]}],
            effects  |-> <<[run |-> "rights", deps |-> {"branchId"}], OnMount("load"),
                           [run |-> "team", deps |-> {"branchId"}]>>,
            data     |-> [rights |-> {"grant"}, branches |-> {"branch"}, technicians |-> {"member"}],
            busy     |-> {"branchesLoading", "rightsLoading", "techLoading", "saving"},
            alerts   |-> {"problem"}])

(***************************************************************************)
(* operations.tsx: the dashboards, the reports and the lists of orders are *)
(* queries with filters over what was loaded.                              *)
(***************************************************************************)
QueryState == [loading |-> TRUE, error |-> FALSE]
Report(calls, retry) ==
  ScreenOf([states   |-> {Shown(QueryState @@ [orders |-> None, filter |-> ""])},
            handlers |-> [load   |-> Query(calls, {}, "orders"),
                          retry  |-> Does(Runs("load")),
                          choose |-> Handler([takes |-> {"", "x"}, except |-> {"filter"},
                                              start |-> [filter |-> Arg]])],
            controls |-> ("choose" :> Always) @@ (IF retry = {} THEN Nothing ELSE "retry" :> retry),
            effects  |-> <<OnMount("load")>>,
            data     |-> [orders |-> {"order"}],
            busy     |-> {"loading"},
            alerts   |-> {"error"}])

RealDashboard ==
  Report({"listServiceOrders", "listAllCustomers", "listProducts", "listUsers", "listBranches"},
         {[error |-> {TRUE}, loading |-> {FALSE}]})
BranchDashboard ==
  Report({"currentUser", "listServiceOrders", "listCustomers", "listProducts", "listBranches"}, {})
OrderReportingPage ==
  Report({"listServiceOrders", "listBranches", "listAllCustomers", "listUsers"}, {[error |-> {TRUE}]})
ProductivityReportingPage == Report({"listServiceOrders", "listUsers", "listBranches"}, {})
OrdersPage == OrderReportingPage

(* Another branch is chosen for the session; the window is loaded again.   *)
ChooseBranch ==
  Handler([takes  |-> Rows, except |-> {"activeBranch"},
           start  |-> [busy |-> TRUE, problem |-> FALSE],
           steps  |-> <<Await([calls |-> {"selectBranch"}, then |-> {[goto |-> "reload"]},
                               fail  |-> [problem |-> TRUE, busy |-> FALSE]])>>])

DashboardBranchSwitcher ==
  ScreenOf([states   |-> {Shown(QueryState @@ [branches |-> None, activeBranch |-> b,
                                               busy |-> FALSE, problem |-> FALSE]) : b \in Rows},
            handlers |-> [load   |-> Query({"currentUser", "listBranches"}, {}, "branches"),
                          change |-> ChooseBranch],
            controls |-> [change |-> {[branches |-> Loaded, busy |-> {FALSE}, loading |-> {FALSE}]}],
            effects  |-> <<OnMount("load")>>,
            data     |-> [branches |-> {"branch"}],
            busy     |-> {"loading", "busy"},
            alerts   |-> {"error", "problem"}])

DashboardGlobalSearch ==
  ScreenOf([states   |-> {Shown(QueryState @@ [orders |-> None, query |-> "", devices |-> None,
                                               searching |-> FALSE, problem |-> FALSE])},
            handlers |-> [load |-> Query({"listServiceOrders", "listAllCustomers"}, {}, "orders"),
                          find |-> TypedSearch("searchDevices", "query", "devices", "searching",
                                               [problem |-> FALSE]),
                          type |-> Handler([takes |-> Typed, except |-> {"query"},
                                            start |-> [query |-> Arg]])],
            controls |-> [type |-> Always],
            effects  |-> <<OnMount("load"), [run |-> "find", deps |-> {"query"}]>>,
            data     |-> [orders |-> {"order"}, devices |-> {"device"}],
            busy     |-> {"loading", "searching"},
            alerts   |-> {"error", "problem"}])

(* Protected renders its page when the user has the role and one of the    *)
(* capabilities; without an answer about them it does not.                 *)
CheckAccess ==
  LET decided(a) == [access |-> a, validating |-> FALSE]
  IN Handler([latest |-> "run",
              steps  |-> <<Await([calls |-> {"currentUser"},
                                  then  |-> {Nothing} \cup {Stop @@ decided(a) : a \in {"no", "denied", "ok"}},
                                  fail  |-> decided("no")]),
                           Await([calls |-> {"effectiveCapabilities"},
                                  then  |-> {decided(a) : a \in {"denied", "ok"}},
                                  fail  |-> decided("denied")])>>])
Protected ==
  ScreenOf([states   |-> {Shown([access |-> "no", validating |-> TRUE])},
            handlers |-> [check |-> CheckAccess, login |-> Goes("login")],
            controls |-> [login |-> {[access |-> {"no"}, validating |-> {FALSE}]}],
            effects  |-> <<OnMount("check")>>,
            busy     |-> {"validating"}])

(***************************************************************************)
(* CustomersPage: the directory, page by page or what a search has found,  *)
(* and the form over it.  A change is followed by a reload of the page;    *)
(* only anonymizing repeats the search, and what is typed into the form is *)
(* compared with the customers there are when it changes.  One field stands *)
(* for the failures of the form, the import and the anonymizing.           *)
(***************************************************************************)
PageLoaded == {[q |-> [page |-> p], fresh |-> f] : p \in 0..1, f \in BOOLEAN}
LoadDirectory == Query({"listCustomers", "customerOrderCounts"}, {"page"}, "customers")
SearchDirectory ==
  [TypedSearch("searchCustomers", "search", "results", "searching", [searchError |-> FALSE])
     EXCEPT !.fail = [searchError |-> TRUE]]
Anonymize ==
  Handler([takes  |-> Rows, except |-> {"anonymizing"}, reads |-> {"page"},
           start  |-> [anonymizing |-> Arg, problem |-> FALSE],
           steps  |-> <<Await([calls |-> {"anonymizeCustomer"}]),
                      With(Inline(LoadDirectory), Runs("find"))>>,
           fail   |-> [problem |-> TRUE],
           final  |-> [anonymizing |-> None]])
(* Neither look-up reports a failure.                                      *)
(* Mutant: only the timer is cleared, a late answer is taken. *)
FindAnyDuplicates ==
  Handler([latest |-> "timer", reads |-> {"form"},
           needs  |-> <<Unless({[form |-> {"good"}]}, [duplicates |-> None])>>,
           start  |-> [duplicates |-> None],
           steps  |-> <<Await(Nothing),
                        Await([calls |-> {"searchCustomers", "potentialDuplicateCustomer"},
                               then  |-> {[duplicates |-> Answer]}])>>])
FindDuplicates == [FindAnyDuplicates EXCEPT !.latest = "run"]
SubmitCustomer ==
  [Changes("createCustomer", "saving", [form |-> ""], <<Inline(LoadDirectory)>>) EXCEPT
     !.reads = {"page"}]
ImportDirectory ==
  [Changes("importCustomersCsv", "importing", Nothing, <<Inline(LoadDirectory)>>) EXCEPT
     !.reads = {"page"}]

CustomersHandlers ==
  [load |-> LoadDirectory,
   find |-> SearchDirectory,
   type |-> Handler([takes |-> {"", "x"}, except |-> {"search"}, start |-> [search |-> Arg]]),
   turn |-> Handler([takes |-> 0..1, except |-> {"page"}, start |-> [page |-> Arg]]),
   retry     |-> Does(Runs("load")),
   findAgain |-> Does(Runs("find")),
   anonymize |-> Anonymize,
   check  |-> FindDuplicates,
   fill   |-> Handler([takes |-> {"", "good"}, except |-> {"form"}, start |-> [form |-> Arg]]),
   submit |-> SubmitCustomer,
   import |-> ImportDirectory]

CustomersPage ==
  ScreenOf([states   |-> {Shown(QueryState @@
                                [customers |-> None, page |-> 0, search |-> "", results |-> None,
                                 searching |-> FALSE, searchError |-> FALSE, anonymizing |-> None,
                                 form |-> "", duplicates |-> None,
                                 saving |-> FALSE, importing |-> FALSE, problem |-> FALSE])},
            handlers |-> CustomersHandlers,
            controls |-> [type |-> Always,
                          turn |-> {[search |-> {""}, customers |-> PageLoaded, loading |-> {FALSE}]},
                          retry     |-> {[error |-> {TRUE}]},
                          findAgain |-> {[searchError |-> {TRUE}]},
                          anonymize |-> {[loading |-> {FALSE}, error |-> {FALSE}]},
                          fill   |-> Always,
                          submit |-> {[saving |-> {FALSE}, form |-> {"good"}]},
                          import |-> {[importing |-> {FALSE}]}],
            effects  |-> <<[run |-> "load", deps |-> {"page"}], [run |-> "find", deps |-> {"search"}],
                           [run |-> "check", deps |-> {"form"}]>>,
            data     |-> [customers |-> {"customer"}, results |-> {"customer"},
                          duplicates |-> {"customer"}],
            outrun   |-> {"customers"}, \* of two pages the last answer stays
            untold   |-> [results |-> {"submit", "import"},
                          duplicates |-> {"import", "anonymize"}],
            again    |-> {"anonymize"}, \* one row at a time is marked busy
            busy     |-> {"loading", "searching", "saving", "importing"},
            alerts   |-> {"error", "searchError", "problem"}])

(***************************************************************************)
(* BranchesPage and TeamPage: every change is followed by a reload.        *)
(***************************************************************************)
LoadBranches == Query({"listBranches"}, {}, "branches")
ChangesBranch(call) == Changes(call, "busy", Nothing, <<Inline(LoadBranches)>>)
SaveBranch(call) == Changes(call, "busy", [editing |-> None, form |-> "bad"], <<Inline(LoadBranches)>>)

BranchesPage ==
  LET idle == [busy |-> {FALSE}]
      row  == {idle @@ [branches |-> Loaded, manages |-> {TRUE}]}
      sure == idle @@ [manages |-> {TRUE}, form |-> {"good"}]
  IN ScreenOf([states   |-> {Shown(QueryState @@ [branches |-> None, manages |-> m,
                                                  activeBranch |-> None, editing |-> None,
                                                  form |-> "bad", busy |-> FALSE,
                                                  problem |-> FALSE]) : m \in BOOLEAN},
               handlers |-> [load   |-> LoadBranches,
                             retry  |-> Does(Runs("load")),
                             create |-> SaveBranch("createBranch"),
                             update |-> SaveBranch("updateBranch"),
                             edit   |-> Handler([takes |-> Rows,
                                                 start |-> [editing |-> Arg, form |-> "good"]]),
                             fill   |-> Sets("form", {"bad", "good"}),
                             cancel |-> Does([editing |-> None, form |-> "bad"]),
                             choose |-> ChooseBranch,
                             toggle |-> ChangesBranch("setBranchActive")],
               controls |-> [retry  |-> {[error |-> {TRUE}]},
                             create |-> {sure @@ [editing |-> {None}]},
                             update |-> {sure @@ [editing |-> Rows]},
                             edit   |-> row,
                             fill   |-> {[manages |-> {TRUE}]},
                             cancel |-> {idle @@ [editing |-> Rows]},
                             choose |-> {idle @@ [branches |-> Loaded]},
                             toggle |-> row],
               effects  |-> <<OnMount("load")>>,
               data     |-> [branches |-> {"branch"}],
               busy     |-> {"loading", "busy"},
               alerts   |-> {"error", "problem"}])

(* The users are asked for once it is known that they may be managed.      *)
LoadTeamRights ==
  [QueryOf({"effectiveCapabilities"}, {}, "manages", "rightsLoading", "error") EXCEPT
     !.steps[1].then = {[manages |-> m] : m \in BOOLEAN}]
LoadTeam ==
  [Query({"listUsers", "listBranches"}, {}, "users") EXCEPT
     !.needs = <<Unless({[manages |-> {TRUE}]}, [users |-> None, loading |-> FALSE])>>]
(* Nothing is asked for before there is a choice.                          *)
LoadMembers ==
  [QueryOf({"listBranchMembers"}, {"branchId"}, "members", "membersLoading", "error") EXCEPT
     !.needs = <<Unless({[branchId |-> Rows]}, Nothing)>>]
LoadGrants ==
  [QueryOf({"listUserCapabilityGrants"}, {"userId"}, "grants", "grantsLoading", "error") EXCEPT
     !.needs = <<Unless({[userId |-> Rows]}, Nothing)>>]
ChangesMember(call) ==
  [Changes(call, "busy", Nothing, <<Inline(LoadMembers)>>) EXCEPT
     !.needs = <<Unless({[userId |-> Rows, branchId |-> Rows]}, Nothing)>>,
     !.reads = {"branchId"}]
SaveGrant ==
  [Changes("setUserCapabilityGrant", "busy", Nothing, <<Inline(LoadGrants)>>) EXCEPT
     !.needs = <<Unless({[userId |-> Rows]}, Nothing)>>, !.reads = {"userId"}]

(* The people of the business with their rows, and beside them a form for  *)
(* one of them (team-user-editor.tsx) with a list of its own.  Each list   *)
(* is brought up to date by its own changes only.                          *)
LoadEditor ==
  Handler([latest |-> "run",
           steps  |-> <<Await([calls |-> {"listUsers"}, then |-> {[listed |-> Answer]}])>>,
           fail   |-> [editorError |-> TRUE],
           final  |-> [editorLoading |-> FALSE]])
SaveListedUser ==
  Handler([needs |-> <<Unless({[chosen |-> {TRUE}]}, Nothing)>>,
           start |-> [saving |-> TRUE, editorError |-> FALSE],
           steps |-> <<Await([calls |-> {"updateUser"}, then |-> {Done @@ [listed |-> Patched]}])>>,
           fail  |-> [editorError |-> TRUE],
           final |-> [saving |-> FALSE]])
ChangesUser(call) == Changes(call, "busy", Nothing, <<Inline(LoadTeam)>>)

TeamPage ==
  LET row == {[busy |-> {FALSE}, users |-> Loaded, manages |-> {TRUE}]}
  IN ScreenOf([states   |-> {Shown(QueryState @@
                                   [manages |-> FALSE, rightsLoading |-> TRUE,
                                    users |-> None, busy |-> FALSE, problem |-> FALSE,
                                    listed |-> None, chosen |-> FALSE, editorLoading |-> TRUE,
                                    saving |-> FALSE, editorError |-> FALSE])},
               handlers |-> [rights |-> LoadTeamRights,
                             load   |-> LoadTeam,
                             save   |-> ChangesUser("updateUser"),
                             toggle |-> ChangesUser("activateUser"),
                             invite |-> Changes("inviteUser", "busy", Nothing, <<>>),
                             loadEditor  |-> LoadEditor,
                             choose      |-> Handler([takes |-> BOOLEAN,
                                                      start |-> [chosen |-> Arg, editorError |-> FALSE]]),
                             saveProfile |-> SaveListedUser],
               controls |-> [save   |-> row,
                             toggle |-> row,
                             invite |-> {[busy |-> {FALSE}, rightsLoading |-> {FALSE},
                                          manages |-> {TRUE}]},
                             choose      |-> {[editorLoading |-> {FALSE}, listed |-> Loaded]},
                             saveProfile |-> {[saving |-> {FALSE}, chosen |-> {TRUE}]}],
               effects  |-> <<OnMount("rights"), [run |-> "load", deps |-> {"manages"}],
                              OnMount("loadEditor")>>,
               data     |-> [users |-> {"user"}, listed |-> {"user"}],
               untold   |-> [users |-> {"saveProfile"}, listed |-> {"save", "toggle"}],
               busy     |-> {"loading", "rightsLoading", "busy", "editorLoading", "saving"},
               alerts   |-> {"error", "problem", "editorError"}])

(* The branches a person works in and what the person may do, on the same  *)
(* page.  These lists show nothing that the others do, nor does a change of *)
(* one write what another shows.                                           *)
TeamAccess ==
  LET chosen == [busy |-> {FALSE}, userId |-> Rows]
      member == {chosen @@ [branchId |-> Rows, membersLoading |-> {FALSE}]}
      pick(f) == Handler([takes |-> Rows, except |-> {f}, start |-> f :> Arg])
  IN ScreenOf([states   |-> {Shown([members |-> None, grants |-> None, branchId |-> None,
                                    userId |-> None, membersLoading |-> FALSE,
                                    grantsLoading |-> FALSE, busy |-> FALSE, error |-> FALSE,
                                    problem |-> FALSE])},
               handlers |-> [members |-> LoadMembers, grants |-> LoadGrants,
                             branch  |-> pick("branchId"), user |-> pick("userId"),
                             assign  |-> ChangesMember("assignUserBranch"),
                             remove  |-> ChangesMember("removeUserBranch"),
                             save    |-> SaveGrant],
               controls |-> [branch |-> Always, user |-> Always, assign |-> member,
                             remove |-> member, save |-> {chosen}],
               effects  |-> <<[run |-> "members", deps |-> {"branchId"}],
                              [run |-> "grants", deps |-> {"userId"}]>>,
               data     |-> [members |-> {"member"}, grants |-> {"grant"}],
               outrun   |-> {"members", "grants"}, \* of two branches or users the last answer stays
               busy     |-> {"membersLoading", "grantsLoading", "busy"},
               alerts   |-> {"error", "problem"}])
(***************************************************************************)
(* WhatsAppPage, AiPage, OnboardingPage: what they send is not awaited by  *)
(* any flag, except the question to the assistant; no failure is caught.   *)
(***************************************************************************)
Uncaught(calls, then) == Handler([steps |-> <<Await([calls |-> calls, then |-> {then}])>>])

LoadMessages ==
  [QueryOf({"whatsappMessages"}, {"conversation"}, "messages", "loading", "error") EXCEPT
     !.needs = <<Unless({[conversation |-> Rows]}, Nothing)>>]
LoadInbox == QueryOf({"whatsappStatus", "whatsappConversations"}, {}, "inbox", "inboxLoading", "error")
Reply ==
  [Uncaught({"whatsappReply"}, [text |-> "bad"] @@ Runs("messages")) EXCEPT !.reads = {"conversation"}]
TakeOver ==
  Handler([steps |-> <<Await([calls |-> {"whatsappHandoff"}]), Inline(LoadInbox)>>])

WhatsAppPage ==
  LET open == [conversation |-> Rows]
  IN ScreenOf([states   |-> {Shown([inbox |-> None, inboxLoading |-> TRUE, messages |-> None,
                                    loading |-> FALSE, conversation |-> None, text |-> "bad",
                                    error |-> FALSE])},
               handlers |-> [inbox    |-> LoadInbox,
                             messages |-> LoadMessages,
                             choose   |-> Handler([takes |-> Rows, except |-> {"conversation"},
                                                   start |-> [conversation |-> Arg]]),
                             write    |-> Sets("text", {"bad", "good"}),
                             reply    |-> Reply,
                             takeOver |-> TakeOver,
                             connect  |-> Uncaught({"whatsappConnect"}, Runs("inbox"))],
               controls |-> [choose   |-> {[inbox |-> Loaded]},
                             write    |-> {open},
                             reply    |-> {open @@ [text |-> {"good"}]},
                             takeOver |-> {open},
                             connect  |-> Always],
               effects  |-> <<OnMount("inbox"), [run |-> "messages", deps |-> {"conversation"}]>>,
               data     |-> [inbox |-> {"conversation"}, messages |-> {"message"}],
               outrun   |-> {"messages"}, \* of two conversations the last answer stays
               again    |-> {"connect", "reply", "takeOver"}, \* no button has a busy state
               busy     |-> {"inboxLoading", "loading"},
               alerts   |-> {"error"}])

AiPage ==
  ScreenOf([states   |-> {Shown([answer |-> None, busy |-> FALSE])},
            handlers |-> [submit |-> Handler([start |-> [busy |-> TRUE],
                                              steps |-> <<Await([calls |-> {"assistantChat"},
                                                                 then |-> {[answer |-> Answer]}])>>,
                                              final |-> [busy |-> FALSE]])],
            controls |-> [submit |-> {[busy |-> {FALSE}]}],
            data     |-> [answer |-> {}],
            busy     |-> {"busy"}])

OnboardingPage ==
  ScreenOf([states   |-> {Shown(Nothing)},
            again    |-> {"submit"}, \* no busy state
            handlers |-> [submit |-> Uncaught({"completeOnboarding"}, [goto |-> "dashboard"])],
            controls |-> [submit |-> Always]])

(***************************************************************************)
(* pages.tsx: signing in, and what is done with a link from an email.      *)
(***************************************************************************)
AuthForm(calls, then) ==
  Handler([needs |-> <<Unless({[form |-> {"good"}]}, [error |-> TRUE])>>,
           start |-> [busy |-> TRUE, error |-> FALSE],
           steps |-> [i \in DOMAIN calls |->
                        Await([calls |-> {calls[i]},
                               then  |-> IF i = Len(calls) THEN then ELSE Always])],
           fail  |-> [error |-> TRUE],
           final |-> [busy |-> FALSE]])
AuthCard(submit) ==
  ScreenOf([states   |-> {Shown([form |-> "bad", message |-> FALSE, busy |-> FALSE,
                                 error |-> FALSE])},
            handlers |-> [fill |-> Sets("form", {"bad", "good"}), submit |-> submit],
            controls |-> [fill |-> Always, submit |-> {[busy |-> {FALSE}]}],
            busy     |-> {"busy"},
            alerts   |-> {"error"}])

LoginPage ==
  AuthCard(AuthForm(<<"login", "currentUser">>,
             {[goto |-> p] : p \in {"change-password", "onboarding", "dashboard"}}))
ChangePasswordPage ==
  AuthCard(AuthForm(<<"changePassword", "currentUser">>,
             {[goto |-> p] : p \in {"onboarding", "dashboard"}}))
SignupPage == AuthCard(AuthForm(<<"signup">>, {[message |-> TRUE]}))

(* Once it is done the form is gone.                                       *)
LinkForm(call) ==
  ScreenOf([states   |-> {Shown([done |-> FALSE])},
            handlers |-> [submit |-> Uncaught({call}, [done |-> TRUE])],
            controls |-> [submit |-> {[done |-> {FALSE}]}],
            again    |-> {"submit"}]) \* no busy state
ForgotPasswordPage ==
  [LinkForm("forgotPassword") EXCEPT !.controls = [submit |-> Always]]
ResetPasswordPage    == LinkForm("resetPassword")
AcceptInvitationPage == LinkForm("acceptInvitation")
VerifyEmailPage ==
  ScreenOf([states   |-> {Shown([state |-> "verifying"])},
            handlers |-> [verify |-> Handler([steps |-> <<Await([calls |-> {"verifyEmail"},
                                                                 then |-> {[state |-> "verified"]}])>>,
                                              fail  |-> [state |-> "invalid"]])],
            effects  |-> <<OnMount("verify")>>])

CustomerPortalPage ==
  LET loaded == [operation |-> Loaded]
  IN ScreenOf([states   |-> {Shown([operation |-> None, verified |-> FALSE, message |-> "checking"])},
               again    |-> {"otp", "verify", "authorize"}, \* no button has a busy state
               handlers |-> [load   |-> Handler([steps |-> <<Await([calls |-> {"portalOperation",
                                                                               "portalDocuments"},
                                                   then |-> {[operation |-> Answer,
                                                              message |-> "ready"]}])>>,
                                                 fail  |-> [message |-> "invalid"]]),
                             otp    |-> Uncaught({"portalOtp"}, [message |-> "sent"]),
                             verify |-> Handler([steps |-> <<Await([calls |-> {"portalVerify"},
                                                   then |-> {[verified |-> b, message |-> "checked"] :
                                                             b \in BOOLEAN}])>>]),
                             authorize |-> Uncaught({"portalAuthorize"}, [message |-> "recorded"])],
               controls |-> [otp |-> {loaded}, verify |-> {loaded},
                             authorize |-> {loaded @@ [verified |-> {TRUE}]}],
               effects  |-> <<OnMount("load")>>,
               data     |-> [operation |-> {"token"}]])
=============================================================================
