---------------------------- MODULE ShopScreens -----------------------------
(***************************************************************************)
(* The records and the settings of a repair shop: the pages of             *)
(* src/frontend/src/fixi that keep the account, the team, notifications,   *)
(* workflows, services, customers and devices.                             *)
(***************************************************************************)
EXTENDS Screens

AccountCalls ==
  [getAccountProfile |-> Get({"account"}),
   updateAccountProfile |-> Put({"account"}),
   currentUser    |-> Get({"session"}),
   changePassword |-> Put({"user"}),
   getSessionSecurityPreference    |-> Get({"security"}),
   updateSessionSecurityPreference |-> Put({"security"}),
   effectiveCapabilities |-> Get({"grant"}),
   listUsers      |-> Get({"user"}),
   updateUser     |-> Put({"user"})]

ProfileCalls ==
  [industryProfile       |-> Get({"industry"}),
   updateIndustryProfile |-> Put({"industry"}),
   getBusinessProfile    |-> Get({"business"}),
   updateBusinessProfile |-> Put({"business"}),
   getNotificationPreferences      |-> Get({"preferences"}),
   updateNotificationPreferences   |-> Put({"preferences"}),
   getOperationalEmailRecipients    |-> Get({"recipients"}),
   updateOperationalEmailRecipients |-> Put({"recipients"})]

WorkflowCalls ==
  [listWorkflows            |-> Get({"workflow"}),
   createWorkflow           |-> Put({"workflow"}),
   addWorkflowState         |-> Put({"workflow"}),
   updateWorkflowStateLabel |-> Put({"workflow"}),
   setWorkflowStateActive   |-> Put({"workflow"}),
   addWorkflowTransition    |-> Put({"workflow"})]

ServiceCalls ==
  [listServices     |-> Get({"service"}),
   createService    |-> Put({"service"}),
   updateService    |-> Put({"service"}),
   setServiceActive |-> Put({"service"})]

CustomerCalls ==
  [listCustomers     |-> Get({"customer"}),
   listAllCustomers  |-> Get({"customer"}),
   searchCustomers   |-> Get({"customer"}),
   getCustomer       |-> Get({"customer"}),
   createCustomer    |-> Put({"customer"}),
   updateCustomer    |-> Put({"customer"}),
   anonymizeCustomer |-> Put({"customer"}),
   importCustomersCsv |-> Put({"customer"}),
   potentialDuplicateCustomer |-> Get({"customer"}),
   customerServiceOrders |-> Get({"order"}),
   customerOrderCounts   |-> Get({"order"}),
   listWarrantyClaims    |-> Get({"warranty"})]

DeviceCalls ==
  [listDevices        |-> Get({"device"}),
   searchDevices      |-> Get({"device"}),
   deviceCatalog      |-> Get({"device"}),
   mergeDeviceCatalog |-> Put({"device"}),
   createDevice       |-> Put({"device"}),
   updateDevice       |-> Put({"device"}),
   transferDevice     |-> Put({"device"}),
   deviceOwnershipHistory |-> Get({"device"})]

(***************************************************************************)
(* The shapes these pages share: what is loaded when a page is mounted, or *)
(* when what the load depends on changes (its cleanup drops the run before *)
(* it), and what a form sends.                                             *)
(***************************************************************************)
Fetches(calls, then) ==
  Handler([latest |-> "run",
           steps  |-> <<Await([calls |-> calls, then |-> then])>>,
           fail   |-> [error |-> TRUE],
           final  |-> [loading |-> FALSE]])

Saves(calls, then) ==
  Handler([start |-> [saving |-> TRUE, error |-> FALSE],
           steps |-> <<Await([calls |-> calls, then |-> {Done @@ then}])>>,
           fail  |-> [error |-> TRUE],
           final |-> [saving |-> FALSE]])

(* The same, and a list is loaded again before the form is done.           *)
SavesThen(call, then, reload) ==
  [Saves({call}, then) EXCEPT
     !.steps = <<Await([calls |-> {call}, then |-> {then}]), With(Inline(reload), Done)>>]

(* What is typed is searched for after a pause; less than two characters   *)
(* search for nothing.                                                     *)
TypedSearch(call, field, results, busy, before) ==
  LET nothing == (results :> None) @@ (busy :> FALSE) @@ before
  IN Handler([latest |-> "run",
              needs  |-> <<Unless({field :> {"x", "y"}}, nothing)>>,
              reads  |-> {field},
              start  |-> (busy :> TRUE) @@ before,
              steps  |-> <<Await(Nothing),
                           Await([calls |-> {call}, then |-> {results :> Answer}])>>,
              fail   |-> [problem |-> TRUE],
              final  |-> busy :> FALSE])
Typed == {"", "x", "y"}

OnMount(run) == [run |-> run, deps |-> {}]
Loaded == {[q |-> Nothing, fresh |-> f] : f \in BOOLEAN}

(***************************************************************************)
(* account-profile.tsx, notification-settings.tsx                          *)
(***************************************************************************)
LoadAccount ==
  Fetches({"getAccountProfile"}, {[profile |-> Answer, form |-> f] : f \in {"bad", "good"}})
SaveAccount == Saves({"updateAccountProfile"}, [profile |-> Answer, form |-> "good"])

AccountProfilePage ==
  ScreenOf([states   |-> {Shown([profile |-> None, form |-> "bad", loading |-> TRUE,
                                 saving |-> FALSE, error |-> FALSE])},
            handlers |-> [load |-> LoadAccount, fill |-> Sets("form", {"bad", "good"}),
                          save |-> SaveAccount],
            controls |-> Within([loading |-> {FALSE}],
                           [fill |-> Always,
                            save |-> {[saving |-> {FALSE}, form |-> {"good"}]}]),
            effects  |-> <<OnMount("load")>>,
            data     |-> [profile |-> {"account"}],
            busy     |-> {"loading", "saving"},
            alerts   |-> {"error"}])

(* A list of addresses that is not in order is refused before it is sent.  *)
LoadPreferences ==
  Fetches({"getNotificationPreferences", "getOperationalEmailRecipients"},
          {[preferences |-> Answer, recipients |-> "good"]})
SavePreferences == Saves({"updateNotificationPreferences"}, [preferences |-> Answer])
SaveRecipients ==
  [Saves({"updateOperationalEmailRecipients"}, [recipients |-> "good"]) EXCEPT
     !.needs = <<Unless({[recipients |-> {"good"}]}, [error |-> TRUE])>>]

NotificationSettingsPage ==
  LET idle == [loading |-> {FALSE}, saving |-> {FALSE}]
  IN ScreenOf([states   |-> {Shown([preferences |-> None, recipients |-> "good",
                                    loading |-> TRUE, saving |-> FALSE, error |-> FALSE])},
               handlers |-> [load |-> LoadPreferences,
                             save |-> SavePreferences,
                             type |-> Sets("recipients", {"bad", "good"}),
                             saveRecipients |-> SaveRecipients],
               controls |-> [h \in {"save", "type", "saveRecipients"} |-> {idle}],
               effects  |-> <<OnMount("load")>>,
               data     |-> [preferences |-> {"preferences"}],
               busy     |-> {"loading", "saving"},
               alerts   |-> {"error"}])

(***************************************************************************)
(* workflow-settings.tsx: the first workflow is selected unless one is.    *)
(***************************************************************************)
ReloadWorkflows ==
  Handler([start |-> [loading |-> TRUE],
           steps |-> <<Await([calls |-> {"listWorkflows"},
                              then  |-> {[workflows |-> Answer],
                                         [workflows |-> Answer, selected |-> "r1"]}])>>,
           fail  |-> [error |-> TRUE],
           final |-> [loading |-> FALSE]])

CreateWorkflow ==
  [SavesThen("createWorkflow", Nothing, ReloadWorkflows) EXCEPT
     !.steps[2] = With(@, [selected |-> "r2"])]
ChangeWorkflow(call) ==
  [SavesThen(call, Nothing, ReloadWorkflows) EXCEPT
     !.needs = <<Unless({[selected |-> Rows]}, Nothing)>>]
RenameState ==
  [SavesThen("updateWorkflowStateLabel", [editing |-> FALSE], ReloadWorkflows) EXCEPT
     !.needs = <<Unless({[selected |-> Rows]}, Nothing),
                 Unless({[label |-> {"other"}]}, [editing |-> FALSE])>>]

WorkflowHandlers ==
  [load     |-> ReloadWorkflows,
   create   |-> CreateWorkflow,
   select   |-> Handler([takes |-> Rows \cup {None},
                         start |-> [selected |-> Arg, editing |-> FALSE]]),
   addState |-> ChangeWorkflow("addWorkflowState"),
   addTransition |-> ChangeWorkflow("addWorkflowTransition"),
   toggle   |-> ChangeWorkflow("setWorkflowStateActive"),
   edit     |-> Does([editing |-> TRUE, label |-> "same", error |-> FALSE]),
   type     |-> Sets("label", {"same", "other"}),
   rename   |-> RenameState,
   cancel   |-> Does([editing |-> FALSE])]

WorkflowControls ==
  LET idle == {[saving |-> {FALSE}]}
  IN  [create |-> idle, select |-> Always, load |-> {[loading |-> {FALSE}, error |-> {TRUE}]}]
   @@ Within([selected |-> Rows],
        [h \in {"addState", "addTransition", "toggle", "edit"} |-> idle])
   @@ Within([selected |-> Rows, editing |-> {TRUE}],
        [type |-> Always, rename |-> idle, cancel |-> idle])

WorkflowSettingsPage ==
  ScreenOf([states   |-> {Shown([workflows |-> None, selected |-> None, editing |-> FALSE,
                                 label |-> "same", loading |-> TRUE, saving |-> FALSE,
                                 error |-> FALSE])},
            handlers |-> WorkflowHandlers,
            controls |-> WorkflowControls,
            effects  |-> <<OnMount("load")>>,
            data     |-> [workflows |-> {"workflow"}],
            busy     |-> {"loading", "saving"},
            alerts   |-> {"error"}])

(***************************************************************************)
(* order-preferences.tsx and settings.tsx both write the profile of the    *)
(* industry.  The first shows no form without what it loaded; the second   *)
(* shows its defaults, and sends them.                                     *)
(***************************************************************************)
LoadOrderPreferences ==
  Loads({"industryProfile"}, {}, {[profile |-> Answer]})
SaveOrderPreferences ==
  [Saves({"updateIndustryProfile"}, [profile |-> Answer]) EXCEPT
     !.needs = <<Unless({[profile |-> Loaded]}, Nothing)>>]

(* An item that is on the list already is not added again; fifty at most.  *)
OrderPreferencesPage ==
  ScreenOf([states   |-> {Shown([profile |-> None, items |-> 0, loading |-> TRUE,
                                 saving |-> FALSE, error |-> FALSE])},
            handlers |-> [load   |-> LoadOrderPreferences,
                          add    |-> Does([items |-> 1]),
                          remove |-> Does([items |-> 0]),
                          save   |-> SaveOrderPreferences],
            controls |-> [load |-> {[profile |-> {None}, loading |-> {FALSE}]}]
                      @@ Within([profile |-> Loaded],
                           [add    |-> {[items |-> {0}]},
                            remove |-> {[items |-> {1}]},
                            save   |-> {[saving |-> {FALSE}, loading |-> {FALSE}]}]),
            effects  |-> <<OnMount("load")>>,
            data     |-> [profile |-> {"industry"}],
            busy     |-> {"loading", "saving"},
            alerts   |-> {"error"}])

LoadBusiness ==
  Fetches({"industryProfile", "getBusinessProfile", "getSessionSecurityPreference"},
          {[industry |-> "good", business |-> "good"]})
SaveIndustry ==
  [Saves({"updateIndustryProfile"}, Nothing) EXCEPT
     !.needs = <<Unless({[industry |-> {"default", "good"}]}, [error |-> TRUE])>>]
ChangeOwnPassword == Saves({"changePassword"}, [password |-> FALSE])

(* The password can be changed while the page loads, the rest cannot.      *)
BusinessSettings ==
  LET idle == {[saving |-> {FALSE}, loading |-> {FALSE}]}
  IN ScreenOf([states   |-> {Shown([industry |-> "default", business |-> "default",
                                    password |-> FALSE, loading |-> TRUE, saving |-> FALSE,
                                    error |-> FALSE])},
               handlers |-> [load |-> LoadBusiness,
                             fillBusiness |-> Does([business |-> "good"]),
                             fillIndustry |-> Sets("industry", {"bad", "good"}),
                             fillPassword |-> Does([password |-> TRUE]),
                             saveBusiness |-> Saves({"updateBusinessProfile"}, Nothing),
                             saveIndustry |-> SaveIndustry,
                             changePassword |-> ChangeOwnPassword,
                             saveSecurity |-> Saves({"updateSessionSecurityPreference"},
                                                    Nothing)],
               controls |-> [h \in {"fillBusiness", "fillIndustry", "fillPassword"} |-> Always]
                         @@ [h \in {"saveBusiness", "saveIndustry", "saveSecurity"} |-> idle]
                         @@ [changePassword |-> {[saving |-> {FALSE}, password |-> {TRUE}]}],
               effects  |-> <<OnMount("load")>>,
               busy     |-> {"loading", "saving"},
               alerts   |-> {"error"}])

(***************************************************************************)
(* service-catalog.tsx: the catalogue of services.  An import creates one  *)
(* service after the other; a row that is refused does not stop it, and    *)
(* the list is loaded again if any was created.                            *)
(***************************************************************************)
LoadRole ==
  Handler([latest |-> "run",
           steps  |-> <<Await([calls |-> {"currentUser"},
                               then  |-> {[manages |-> m] : m \in BOOLEAN}])>>,
           fail   |-> [error |-> TRUE]])
LoadServices == Loads({"listServices"}, {}, {[services |-> Answer]})
LoadCurrency == Handler([latest |-> "run",
                         steps  |-> <<Await([calls |-> {"getBusinessProfile"}])>>])

(* Several rows of a file go the same way; one of them may be inactive.    *)
ImportServices ==
  Handler([takes |-> {"unreadable", "active", "inactive"},
           start |-> [file |-> Arg, error |-> FALSE, rejected |-> FALSE, importing |-> TRUE,
                      created |-> FALSE],
           steps |-> <<Await(Nothing),
                       Await([calls |-> {"createService"},
                              needs |-> <<Unless({[file |-> {"active", "inactive"}]},
                                                 [error |-> TRUE])>>,
                              then  |-> {[created |-> TRUE]},
                              fail  |-> [rejected |-> TRUE], stop |-> FALSE]),
                       Await([calls |-> {"setServiceActive"},
                              needs |-> <<Unless({[created |-> {TRUE}]}, Nothing)>>,
                              fail  |-> [rejected |-> TRUE], stop |-> FALSE]),
                       Inline(LoadServices)>>,
           fail  |-> [error |-> TRUE],
           final |-> [importing |-> FALSE]])

SaveService ==
  [SavesThen("updateService", [editing |-> FALSE, form |-> FALSE], LoadServices) EXCEPT
     !.needs = <<Unless({[manages |-> {TRUE}]}, Nothing)>>,
     !.steps[1].calls = {"createService", "updateService"}]
ToggleService ==
  [SavesThen("setServiceActive", Nothing, LoadServices) EXCEPT
     !.needs = <<Unless({[manages |-> {TRUE}]}, Nothing)>>]

ServiceCatalogHandlers ==
  [role     |-> LoadRole,
   load     |-> LoadServices,
   currency |-> LoadCurrency,
   import   |-> ImportServices,
   fill     |-> Does([form |-> TRUE]),
   save     |-> SaveService,
   edit     |-> Does([editing |-> TRUE, form |-> TRUE]),
   cancel   |-> Does([editing |-> FALSE, form |-> FALSE]),
   toggle   |-> ToggleService]

ServiceCatalogControls ==
  LET idle == [saving |-> {FALSE}]
  IN  [load |-> {[error |-> {TRUE}]}]
   @@ Within([manages |-> {TRUE}],
        [import |-> {[importing |-> {FALSE}]},
         fill   |-> Always,
         save   |-> {idle @@ [form |-> {TRUE}]},
         cancel |-> {idle @@ [editing |-> {TRUE}]}])
   @@ Within([manages |-> {TRUE}, services |-> Loaded],
        [edit |-> {idle}, toggle |-> {idle}])

ServiceCatalogManagementPage ==
  ScreenOf([states   |-> {Shown([manages |-> FALSE, services |-> None, form |-> FALSE,
                                 editing |-> FALSE, loading |-> TRUE, saving |-> FALSE,
                                 file |-> None, importing |-> FALSE, created |-> FALSE,
                                 rejected |-> FALSE, error |-> FALSE])},
            handlers |-> ServiceCatalogHandlers,
            controls |-> ServiceCatalogControls,
            effects  |-> <<OnMount("role"), OnMount("load"), OnMount("currency")>>,
            data     |-> [services |-> {"service"}],
            busy     |-> {"loading", "saving", "importing"},
            alerts   |-> {"error"}])

(***************************************************************************)
(* customer-tools.tsx: rows that lack a name or a way to reach the         *)
(* customer are left for the user to correct; batches are sent one after   *)
(* the other, whatever becomes of the one before.                          *)
(***************************************************************************)
ImportCustomers ==
  LET batch == Await([calls |-> {"importCustomersCsv"},
                      then  |-> {Nothing, [rejected |-> TRUE]},
                      fail  |-> [rejected |-> TRUE], stop |-> FALSE])
  IN Handler([takes |-> {"unreadable", "short", "long"},
              start |-> [file |-> Arg, saving |-> TRUE, error |-> FALSE, rejected |-> FALSE],
              steps |-> <<Await(Nothing),
                          [batch EXCEPT !.needs = <<Unless({[file |-> {"short", "long"}]},
                                                           [error |-> TRUE])>>],
                          [batch EXCEPT !.needs = <<Unless({[file |-> {"long"}]}, Done)>>]>>,
              fail  |-> [error |-> TRUE],
              final |-> [saving |-> FALSE]])

CustomerCsvTools ==
  ScreenOf([states   |-> {Shown([file |-> None, saving |-> FALSE, rejected |-> FALSE,
                                 error |-> FALSE])},
            handlers |-> [import |-> ImportCustomers],
            controls |-> [import |-> {[saving |-> {FALSE}]}],
            busy     |-> {"saving"},
            alerts   |-> {"error"}])

(***************************************************************************)
(* customer-detail-access.tsx: four lists, each of which may fail for      *)
(* itself (two here), and a form over the first.                           *)
(***************************************************************************)
LoadCustomerDetail ==
  Handler([latest |-> "run",
           start  |-> [loading |-> TRUE, customer |-> None, orders |-> None, editing |-> FALSE],
           steps  |-> <<Await([calls |-> {"getCustomer", "listDevices", "customerServiceOrders",
                                          "listWarrantyClaims"},
                               then  |-> {[customer |-> Answer, orders |-> Answer,
                                           error |-> FALSE],
                                          [customer |-> Answer, error |-> TRUE],
                                          [orders |-> Answer, error |-> TRUE]},
                               fail  |-> [error |-> TRUE]])>>,
           final  |-> [loading |-> FALSE]])

LoadCustomerRights ==
  Handler([latest |-> "run",
           steps  |-> <<Await([calls |-> {"effectiveCapabilities"},
                               then  |-> {[edits |-> e] : e \in BOOLEAN}])>>,
           fail   |-> [error |-> TRUE],
           final  |-> [asking |-> FALSE]])

SaveCustomer ==
  [Saves({"updateCustomer"}, [customer |-> Answer, editing |-> FALSE]) EXCEPT
     !.needs = <<Unless({[edits |-> {TRUE}, customer |-> Loaded]}, Nothing)>>]

CustomerDetailAccessPage ==
  LET shown == [customer |-> Loaded, edits |-> {TRUE}]
  IN ScreenOf([states   |-> {Shown([customer |-> None, orders |-> None, edits |-> FALSE,
                                    asking |-> TRUE, editing |-> FALSE, loading |-> TRUE,
                                    saving |-> FALSE, error |-> FALSE])},
               handlers |-> [load   |-> LoadCustomerDetail,
                             rights |-> LoadCustomerRights,
                             edit   |-> Does([editing |-> TRUE]),
                             save   |-> SaveCustomer,
                             cancel |-> Does([editing |-> FALSE])],
               controls |-> [load |-> {[error |-> {TRUE}]}]
                         @@ Within(shown,
                              [edit   |-> {[asking |-> {FALSE}, editing |-> {FALSE}]},
                               save   |-> {[editing |-> {TRUE}, saving |-> {FALSE}]},
                               cancel |-> {[editing |-> {TRUE}, saving |-> {FALSE}]}]),
               effects  |-> <<OnMount("load"), OnMount("rights")>>,
               data     |-> [customer |-> {"customer"}, orders |-> {"order"}],
               busy     |-> {"loading", "asking", "saving"},
               alerts   |-> {"error"}])

(***************************************************************************)
(* devices.tsx: the catalogue of models, the search for a device by its    *)
(* number, and the devices of the chosen customer with their transfer.     *)
(* What is loaded after a save is that of the customer who was chosen then.*)
(* A merge of models loads the catalogue only; what a search has found is  *)
(* not looked for again.                                                   *)
(***************************************************************************)
TransferState == [target |-> FALSE]

DevicesState ==
  {Shown([customers |-> FALSE, customerId |-> None, devices |-> None, loading |-> FALSE,
          rights |-> FALSE, saving |-> FALSE, transfer |-> None, transferring |-> FALSE,
          catalog |-> None, catalogLoading |-> TRUE, picked |-> FALSE,
          globalSearch |-> "", found |-> None, searching |-> FALSE,
          error |-> FALSE] @@ TransferState)}

LoadDevices ==
  [Fetches({"listDevices"}, {[devices |-> Answer]}) EXCEPT
     !.needs = <<Unless({[customerId |-> Rows]}, [devices |-> None, loading |-> FALSE])>>,
     !.reads = {"customerId"},
     !.start = [devices |-> None, loading |-> TRUE]]

LoadChoices ==
  [Fetches({"listAllCustomers"}, {[customers |-> TRUE]}) EXCEPT !.final = Nothing]

LoadRights ==
  [Fetches({"effectiveCapabilities"}, {[rights |-> r] : r \in BOOLEAN}) EXCEPT !.final = Nothing]

LoadCatalog ==
  [Fetches({"deviceCatalog"}, {[catalog |-> Answer]}) EXCEPT !.final = [catalogLoading |-> FALSE]]
(* The catalogue is that of no customer, whoever loads it again.           *)
RefreshCatalog ==
  Handler([start |-> [catalogLoading |-> TRUE],
           steps |-> <<Await([calls |-> {"deviceCatalog"},
                              then  |-> {[catalog |-> [q |-> Nothing, fresh |-> TRUE]]}])>>,
           fail  |-> [error |-> TRUE],
           final |-> [catalogLoading |-> FALSE]])

SearchDevices ==
  [TypedSearch("searchDevices", "globalSearch", "found", "searching", [found |-> None])
     EXCEPT !.fail = [error |-> TRUE]]
LocateDevice ==
  Handler([takes |-> Rows, start |-> [customerId |-> Arg, globalSearch |-> ""]])

(* A change of a device, then its customer's devices and the catalogue.    *)
ChangesDevice(call, busy, then) ==
  Handler([reads |-> {"customerId"},
           start |-> (busy :> TRUE) @@ [error |-> FALSE],
           steps |-> <<Await([calls |-> {call}]),
                       Await([calls |-> {"listDevices"}, then |-> {[devices |-> Answer]}]),
                       With(Inline(RefreshCatalog), Done @@ then)>>,
           fail  |-> [error |-> TRUE],
           final |-> busy :> FALSE])

SaveDevice ==
  [ChangesDevice("updateDevice", "saving", Nothing) EXCEPT
     !.needs = <<Unless({[customerId |-> Rows]}, Nothing)>>,
     !.steps[1].calls = {"createDevice", "updateDevice"}]
TransferDevice ==
  [ChangesDevice("transferDevice", "transferring", [transfer |-> None]) EXCEPT
     !.needs = <<Unless({[target |-> {TRUE}]}, Nothing)>>]
MergeCatalog ==
  Handler([needs |-> <<Unless({[picked |-> {TRUE}]}, Nothing)>>,
           start |-> [saving |-> TRUE, error |-> FALSE],
           steps |-> <<Await([calls |-> {"mergeDeviceCatalog"}]),
                       Await([calls |-> {"deviceCatalog"},
                              then  |-> {Done @@ [catalog |-> Answer, picked |-> FALSE]}])>>,
           fail  |-> [error |-> TRUE],
           final |-> [saving |-> FALSE]])

SearchTargets ==
  Handler([part   |-> "transfer", latest |-> "run", start |-> [target |-> FALSE],
           steps  |-> <<Await(Nothing),
                        Await([calls |-> {"searchCustomers"},
                               then  |-> {Nothing, [target |-> TRUE]}])>>,
           fail   |-> [error |-> TRUE]])

DevicesHandlers ==
  [loadChoices |-> LoadChoices,
   loadRights  |-> LoadRights,
   loadCatalog |-> LoadCatalog,
   load     |-> LoadDevices,
   pick     |-> Sets("picked", BOOLEAN),
   merge    |-> MergeCatalog,
   type     |-> Handler([takes |-> {"", "x"}, except |-> {"globalSearch"},
                         start |-> [globalSearch |-> Arg]]),
   search   |-> SearchDevices,
   locate   |-> LocateDevice,
   choose   |-> Handler([takes |-> Rows, except |-> {"customerId"},
                         start |-> [customerId |-> Arg, error |-> FALSE]]),
   save     |-> SaveDevice,
   ask      |-> Does([transfer |-> "r1", error |-> FALSE]),
   find     |-> SearchTargets,
   confirm  |-> TransferDevice,
   giveUp   |-> Does([transfer |-> None])]

DevicesControls ==
  LET writes == [rights |-> {TRUE}]
      idle   == [saving |-> {FALSE}]
      moving == [transfer |-> {"r1"}, transferring |-> {FALSE}]
  IN  [pick   |-> {writes @@ [catalog |-> Loaded, catalogLoading |-> {FALSE}]},
       merge  |-> {writes @@ idle @@ [picked |-> {TRUE}]},
       type   |-> Always,
       locate |-> {[globalSearch |-> {"x"}, searching |-> {FALSE},
                    found |-> {[q |-> [globalSearch |-> "x"], fresh |-> f] : f \in BOOLEAN}]},
       choose |-> {[customers |-> {TRUE}]},
       save   |-> {writes @@ idle @@ [customerId |-> Rows]}]
   @@ Within([customerId |-> Rows, devices |-> {[q |-> [customerId |-> c], fresh |-> f]
                                                   : c \in Rows, f \in BOOLEAN}],
        [ask     |-> {writes @@ [transferring |-> {FALSE}]},
         find    |-> {[transfer |-> {"r1"}]},
         confirm |-> {moving @@ [target |-> {TRUE}]},
         giveUp  |-> {moving}])

DeviceManagementPage ==
  ScreenOf([states   |-> DevicesState,
            handlers |-> DevicesHandlers,
            controls |-> DevicesControls,
            effects  |-> <<OnMount("loadChoices"), OnMount("loadCatalog"), OnMount("loadRights"),
                           [run |-> "load", deps |-> {"customerId"}],
                           [run |-> "search", deps |-> {"globalSearch"}]>>,
            parts    |-> [transfer |-> TransferState],
            data     |-> [devices |-> {"device"}, catalog |-> {"device"}, found |-> {"device"}],
            outrun   |-> {"devices"}, \* another customer's may come late
            untold   |-> [devices |-> {"merge"}, found |-> {"save", "confirm", "merge"}],
            busy     |-> {"loading", "saving", "transferring", "catalogLoading", "searching"},
            alerts   |-> {"error"}])

(* The history of a device's owners sets no other field but the error: it  *)
(* is described apart.                                                     *)
ToggleOwnershipHistory ==
  Handler([needs |-> <<Unless({[history |-> {FALSE}]}, [history |-> FALSE])>>,
           start |-> [history |-> TRUE, historyLoading |-> TRUE, error |-> FALSE],
           steps |-> <<Await([calls |-> {"deviceOwnershipHistory"}])>>,
           fail  |-> [error |-> TRUE],
           final |-> [historyLoading |-> FALSE]])

DeviceHistory ==
  ScreenOf([states   |-> {Shown([history |-> FALSE, historyLoading |-> FALSE, error |-> FALSE])},
            handlers |-> [history |-> ToggleOwnershipHistory],
            controls |-> [history |-> {[historyLoading |-> {FALSE}]}],
            busy     |-> {"historyLoading"},
            alerts   |-> {"error"}])

(***************************************************************************)
(* payment-settlement.tsx: a payment carries the identity of the request,  *)
(* kept over a failure and given up when the amount or the method changes. *)
(***************************************************************************)
SettlementCalls ==
  [getServiceOrder |-> Get({"order"}), recordPendingServiceOrderPayment |-> Put({"order"})]

LoadSettlement ==
  Handler([latest |-> "run",
           steps  |-> <<Await([calls |-> {"getServiceOrder"},
                               then  |-> {[order |-> Answer, amount |-> "balance"],
                                          [order |-> Answer, amount |-> "nothing"]}])>>,
           fail   |-> [error |-> TRUE]])

SettlePayment ==
  Handler([needs |-> <<Unless({[amount |-> {"part", "balance"}]}, [error |-> TRUE])>>,
           start |-> [saving |-> TRUE, error |-> FALSE, request |-> "sent"],
           steps |-> <<Await([calls |-> {"recordPendingServiceOrderPayment"},
                              then  |-> {[goto |-> "/orders/pending-payment"],
                                         Done @@ [order |-> Answer, amount |-> "balance",
                                                  request |-> "unsent"]}])>>,
           fail  |-> [error |-> TRUE],
           final |-> [saving |-> FALSE]])

ServiceOrderPaymentSettlementPage ==
  LET due == [order |-> Loaded, saving |-> {FALSE}]
  IN ScreenOf([states   |-> {Shown([order |-> None, amount |-> "nothing", request |-> "unsent",
                                    saving |-> FALSE, error |-> FALSE])},
               handlers |-> [load   |-> LoadSettlement,
                             type   |-> Handler([takes |-> {"bad", "part", "balance"},
                                                 start |-> [amount |-> Arg,
                                                            request |-> "unsent"]]),
                             choose |-> Does([request |-> "unsent"]),
                             settle |-> SettlePayment,
                             back   |-> Goes("/orders/pending-payment")],
               controls |-> [type   |-> {[order |-> Loaded]},
                             choose |-> {[order |-> Loaded]},
                             settle |-> {due @@ [amount |-> {"bad", "part", "balance"}]},
                             back   |-> {due}],
               effects  |-> <<OnMount("load")>>,
               data     |-> [order |-> {"order"}],
               busy     |-> {"saving"},
               alerts   |-> {"error"}])

(***************************************************************************)
(* operational-alerts.tsx: five lists, then the stock of each branch; each *)
(* that fails is named and leaves its part of the alerts empty.            *)
(***************************************************************************)
AlertCalls ==
  [listAllServiceOrders |-> Get({"order"}), listBranches |-> Get({"branch"}),
   listExpenses |-> Get({"expense"}), stock |-> Get({"stock"})]

LoadAlerts ==
  Handler([latest |-> "run",
           steps  |-> <<Await([calls |-> {"listAllServiceOrders", "listProducts", "listBranches",
                                          "listExpenses", "getNotificationPreferences"},
                               then  |-> {[orders |-> Answer, issues |-> i] : i \in BOOLEAN}
                                           \cup {[orders |-> None, issues |-> TRUE]},
                               fail  |-> [orders |-> None, issues |-> TRUE], stop |-> FALSE]),
                        Await([calls |-> {"stock"}, copies |-> [error |-> "issues"],
                               then  |-> {[balances |-> Answer],
                                          [balances |-> Answer, error |-> TRUE]},
                               fail  |-> [balances |-> None, error |-> TRUE],
                               stop  |-> FALSE])>>,
           final  |-> [loading |-> FALSE]])

(* An alert is shown while its branch and its event pass the filters.      *)
OperationalAlertsPage ==
  LET all == [branch |-> "ALL", event |-> "ALL"]
  IN ScreenOf([states   |-> {Shown([orders |-> None, balances |-> None, issues |-> FALSE,
                                    revision |-> 0, loading |-> TRUE, error |-> FALSE] @@ all)},
               handlers |-> [load    |-> LoadAlerts,
                             branch  |-> Sets("branch", {"ALL", "other"}),
                             event   |-> Sets("event", {"ALL", "other"}),
                             refresh |-> Handler([takes |-> 0..1, except |-> {"revision"},
                                                  start |-> [loading |-> TRUE, error |-> FALSE,
                                                             revision |-> Arg]]),
                             open    |-> Goes("/service-orders/:id")],
               controls |-> [branch  |-> Always,
                             event   |-> Always,
                             refresh |-> {[loading |-> {FALSE}]},
                             open    |-> {[orders |-> Loaded, branch |-> {"ALL"},
                                           event |-> {"ALL"}]}],
               effects  |-> <<[run |-> "load", deps |-> {"revision"}]>>,
               data     |-> [orders |-> {"order"}, balances |-> {"stock"}],
               busy     |-> {"loading"},
               alerts   |-> {"error"}])
=============================================================================
