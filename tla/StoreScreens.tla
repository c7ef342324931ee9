---------------------------- MODULE StoreScreens ----------------------------
(***************************************************************************)
(* The store and the money of a repair shop (src/frontend/src/fixi): the   *)
(* catalogue of products with its stock, purchases and their receipts,     *)
(* expenses, the financial report, physical counts and suppliers.  Files   *)
(* that are written for the user change nothing and are left out.          *)
(***************************************************************************)
EXTENDS WorkshopScreens

StoreCalls ==
  [listProducts   |-> Get({"product"}),
   createProduct  |-> Put({"product", "stock", "audit"}),
   updateProduct  |-> Put({"product"}),
   increaseProductPrices |-> Put({"product"}),
   importProductsCsv |-> Put({"product", "stock", "audit"}),
   stock          |-> Get({"stock"}),
   moveStock      |-> Put({"stock", "audit"}),
   recordStockCount |-> Put({"stock", "audit"}),
   listAuditEvents |-> Get({"audit"}),
   listSuppliers  |-> Get({"supplier"}),
   createSupplier |-> Put({"supplier"}),
   updateSupplier |-> Put({"supplier"}),
   setSupplierActive |-> Put({"supplier"}),
   listPurchases  |-> Get({"purchase"}),
   createPurchase |-> Put({"purchase"}),
   receivePurchase |-> Put({"purchase", "stock", "audit"}),
   correctPurchaseReceipt |-> Put({"purchase", "stock", "audit"}),
   cancelPurchase |-> Put({"purchase"})]
MoneyCalls ==
  [listExpenses   |-> Get({"expense"}),
   listRecurringExpenses |-> Get({"template"}),
   createExpense  |-> Put({"expense"}),
   updateExpense  |-> Put({"expense"}),
   markExpensePaid |-> Put({"expense"}),
   createRecurringExpense    |-> Put({"template"}),
   generateRecurringExpense  |-> Put({"expense", "template"}),
   setRecurringExpenseActive |-> Put({"template"}),
   getOpenCashSession |-> Get({"cashSession"}),
   financialReport    |-> Get({"order", "expense", "purchase"})]

(***************************************************************************)
(* inventory.tsx: products, the stock of the chosen branch and the history *)
(* of its movements, three queries; and the panel that imports a file,     *)
(* with a mark and an error of its own.  A manager changes the catalogue,  *)
(* anybody sees it.  What is chosen for a raise and typed for a movement   *)
(* or as a file is data.                                                   *)
(***************************************************************************)
LoadProductCatalog == Query({"listProducts"}, {}, "products")
(* Nothing is asked for without a branch, nor for who does not manage.     *)
LoadStock ==
  [QueryOf({"stock"}, {}, "stock", "stockLoading", "stockError") EXCEPT
     !.needs = <<Unless({[branch |-> {"r1"}]},
                        [stock |-> None, stockLoading |-> FALSE, stockError |-> FALSE])>>]
LoadAudit ==
  [QueryOf({"listAuditEvents"}, {}, "audit", "auditLoading", "auditError") EXCEPT
     !.needs = <<Unless({[manages |-> {TRUE}]},
                        [audit |-> None, auditLoading |-> FALSE, auditError |-> FALSE])>>]
LoadSession ==
  Handler([steps |-> <<Await([calls |-> {"currentUser", "listBranches", "listSuppliers"},
                              then  |-> {[manages |-> m] : m \in BOOLEAN}])>>])

(* The reload functions of several queries at once; each may fail.         *)
ReloadMoved ==
  Handler([start |-> [stockLoading |-> TRUE, stockError |-> FALSE,
                      auditLoading |-> TRUE, auditError |-> FALSE],
           steps |-> <<Await([calls |-> {"stock", "listAuditEvents"},
                              then  |-> {[stock |-> Answer, audit |-> Answer],
                                         [stock |-> Answer, auditError |-> TRUE],
                                         [audit |-> Answer, stockError |-> TRUE]}])>>,
           fail  |-> [stockError |-> TRUE, auditError |-> TRUE],
           final |-> [stockLoading |-> FALSE, auditLoading |-> FALSE]])
ReloadCatalog ==
  LET moved == ReloadMoved.steps[1].then IN
  Handler([start |-> ReloadMoved.start @@ [loading |-> TRUE, error |-> FALSE],
           steps |-> <<Await([calls |-> {"listProducts", "stock", "listAuditEvents"},
                              then  |-> {e @@ [products |-> Answer] : e \in moved}
                                          \cup {e @@ [error |-> TRUE] : e \in moved}])>>,
           fail  |-> ReloadMoved.fail @@ [error |-> TRUE],
           final |-> ReloadMoved.final @@ [loading |-> FALSE]])

(* A maximum below the minimum is refused before anything is marked.       *)
SaveProduct(call) ==
  [Changes(call, "busy", [form |-> "good"], <<Inline(ReloadCatalog)>>) EXCEPT
     !.needs = <<Unless({[form |-> {"good", "stocked", "edited"}]}, [problem |-> TRUE])>>]
MoveStock == Changes("moveStock", "busy", Nothing, <<Inline(ReloadMoved)>>)
IncreaseSelectedPrices ==
  Changes("increaseProductPrices", "busy", Nothing, <<Inline(LoadProductCatalog)>>)

ReadCatalogFile ==
  Handler([start |-> [problem |-> FALSE],
           steps |-> <<Await([calls |-> {"readFile"}])>>,
           fail  |-> [problem |-> TRUE]])
(* If any row was imported the products are loaded again, nothing else.    *)
ImportCatalog ==
  Handler([start |-> [importing |-> TRUE, problem |-> FALSE],
           steps |-> <<Await([calls |-> {"importProductsCsv"},
                              then  |-> {Runs("load"), Unchanged}])>>,
           fail  |-> [problem |-> TRUE],
           final |-> [importing |-> FALSE]])
LoadImportBranches ==
  Handler([latest |-> "run",
           needs |-> <<Unless({[manages |-> {TRUE}]}, Nothing)>>,
           steps |-> <<Await([calls |-> {"listBranches"}])>>,
           fail  |-> [problem |-> TRUE]])

(* The form of a product: a new one with or without an initial stock, or   *)
(* one that is edited.  One field stands for the failures of a change and   *)
(* of the import.                                                          *)
InventoryState ==
  Shown(QueryState @@ [products |-> None, manages |-> FALSE, branch |-> None,
                       stock |-> None, stockLoading |-> TRUE, stockError |-> FALSE,
                       audit |-> None, auditLoading |-> TRUE, auditError |-> FALSE,
                       form |-> "good", busy |-> FALSE, problem |-> FALSE,
                       importing |-> FALSE])
InventoryHandlers ==
  [load    |-> LoadProductCatalog,
   session |-> LoadSession,
   stock   |-> LoadStock,
   audit   |-> LoadAudit,
   retry   |-> Does(Runs("load")),
   retryAudit |-> Does(Runs("audit")),
   branch  |-> Handler([takes |-> {None, "r1"}, except |-> {"branch"}, start |-> [branch |-> Arg]]),
   fill    |-> Sets("form", {"bad", "good", "stocked"}),
   edit    |-> Does([form |-> "edited"]),
   stopEditing |-> Does([form |-> "good"]),
   create  |-> SaveProduct("createProduct"),
   update  |-> SaveProduct("updateProduct"),
   move    |-> MoveStock,
   raise   |-> IncreaseSelectedPrices,
   importBranches |-> LoadImportBranches,
   read    |-> ReadCatalogFile,
   import  |-> ImportCatalog]

InventoryControls ==
  LET idle == [busy |-> {FALSE}]
      file == {[importing |-> {FALSE}]}
  IN [retry |-> {[error |-> {TRUE}]}, retryAudit |-> {[auditError |-> {TRUE}]}]
  @@ Within([manages |-> {TRUE}],
       [branch  |-> Always,
        fill    |-> {[form |-> {"bad", "good", "stocked"}]},
        edit    |-> {idle @@ [products |-> Loaded]},
        stopEditing |-> {idle @@ [form |-> {"edited"}]},
        create  |-> {idle @@ [form |-> {"bad", "good"}],
                     idle @@ [form |-> {"stocked"}, branch |-> {"r1"}]},
        update  |-> {idle @@ [form |-> {"edited"}]},
        move    |-> {idle @@ [branch |-> {"r1"}]},
        raise   |-> {idle @@ [products |-> Loaded]},
        read    |-> file,
        import  |-> file])

InventoryCatalogPage ==
  LET unseen == {"import"} \* what an import does to the stock is not loaded again
  IN ScreenOf([states   |-> {InventoryState},
               handlers |-> InventoryHandlers,
               controls |-> InventoryControls,
               effects  |-> <<[run |-> "importBranches", deps |-> {"manages"}],
                              OnMount("load"), OnMount("session"),
                              [run |-> "audit", deps |-> {"manages"}],
                              [run |-> "stock", deps |-> {"branch"}]>>,
               data     |-> [products |-> {"product"}, stock |-> {"stock"}, audit |-> {"audit"}],
               outrun   |-> {"stock"}, \* of two branches the last answer stays
               untold   |-> [stock |-> unseen, audit |-> unseen],
               busy     |-> {"loading", "stockLoading", "auditLoading", "busy", "importing"},
               alerts   |-> {"error", "stockError", "auditError", "problem"}])
FileCalls == [readFile |-> Get({})]

(***************************************************************************)
(* purchases.tsx.  A receipt is sent with the identifier of the attempt;   *)
(* it is kept over a failure and renewed with the selection.               *)
(***************************************************************************)
LoadPurchases ==
  Loads({"listPurchases", "listBranches", "listSuppliers", "listProducts", "listServiceOrders"},
        {}, {[purchases |-> Answer]})
(* The page has one field for the failures of a load and of a change.      *)
ChangesPurchase(call, then) ==
  Handler([start |-> [busy |-> TRUE, error |-> FALSE],
           steps |-> <<Await([calls |-> {call}, then |-> {then}]), Inline(LoadPurchases)>>,
           fail  |-> [error |-> TRUE],
           final |-> [busy |-> FALSE]])
NothingSelected == [purchaseId |-> None, lines |-> "none"]
SelectPurchase ==
  Handler([takes |-> Rows \cup {None}, except |-> {"purchaseId"},
           start |-> [purchaseId |-> Arg, lines |-> "good"]])
RefreshSelectedReceipt ==
  Handler([needs |-> <<Unless({[purchaseId |-> Rows]}, Nothing)>>,
           start |-> [busy |-> TRUE, error |-> FALSE],
           steps |-> <<Await([calls |-> {"listPurchases"},
                              then  |-> {[purchases |-> Answer, lines |-> l] : l \in {"none", "good"}}])>>,
           fail  |-> [error |-> TRUE],
           final |-> [busy |-> FALSE]])
Receive ==
  [ChangesPurchase("receivePurchase", NothingSelected) EXCEPT
     !.needs = <<Unless({[lines |-> {"good"}]}, [error |-> TRUE])>>]
CancelPurchase(chosen) ==
  ChangesPurchase("cancelPurchase", IF chosen THEN NothingSelected ELSE Nothing)

PurchasesHandlers ==
  [load    |-> LoadPurchases,
   retry   |-> Does(Runs("load")),
   fill    |-> Sets("form", {"bad", "good"}),
   create  |-> ChangesPurchase("createPurchase", [form |-> "bad"]),
   select  |-> SelectPurchase,
   count   |-> Sets("lines", {"bad", "good"}),
   refresh |-> RefreshSelectedReceipt,
   receive |-> Receive,
   correct |-> Handler([takes |-> Rows \cup {None}, except |-> {"correctionId"},
                        start |-> [correctionId |-> Arg, error |-> FALSE]]),
   saveCorrection |-> ChangesPurchase("correctPurchaseReceipt", [correctionId |-> None]),
   cancel       |-> CancelPurchase(FALSE),
   cancelChosen |-> CancelPurchase(TRUE)]
PurchasesControls ==
  LET idle == [busy |-> {FALSE}, loading |-> {FALSE}]
      row  == idle @@ [purchases |-> Loaded]
  IN [retry   |-> {[error |-> {TRUE}]},
      fill    |-> Always,
      create  |-> {idle @@ [form |-> {"good"}]},
      select  |-> {[purchases |-> Loaded]},
      count   |-> {[purchaseId |-> Rows, lines |-> {"bad", "good"}]},
      refresh |-> {idle @@ [purchaseId |-> Rows]},
      receive |-> {idle @@ [purchaseId |-> Rows, lines |-> {"good"}]},
      correct |-> {row},
      saveCorrection |-> {[busy |-> {FALSE}, correctionId |-> Rows]},
      cancel         |-> {row},
      cancelChosen   |-> {row @@ [purchaseId |-> Rows]}]

Purchases ==
  ScreenOf([states   |-> {Shown([purchases |-> None, form |-> "bad", correctionId |-> None,
                                 loading |-> TRUE, busy |-> FALSE, error |-> FALSE]
                                @@ NothingSelected)},
            handlers |-> PurchasesHandlers,
            controls |-> PurchasesControls,
            effects  |-> <<OnMount("load")>>,
            data     |-> [purchases |-> {"purchase"}],
            busy     |-> {"loading", "busy"},
            alerts   |-> {"error"}])

(***************************************************************************)
(* expenses.tsx: expenses and the templates they recur by.  What is paid   *)
(* in cash needs the open session of the cash desk, which is asked for     *)
(* with every load.                                                        *)
(***************************************************************************)
LoadExpenses ==
  Handler([latest |-> "run",
           start |-> [loading |-> TRUE, error |-> FALSE, recurringError |-> FALSE],
           steps |-> <<Await([calls |-> {"listExpenses", "listRecurringExpenses", "getOpenCashSession"},
                              then  |-> {[expenses |-> Answer, templates |-> Answer, session |-> "open"],
                                         [expenses |-> Answer, templates |-> Answer, session |-> None],
                                         [expenses |-> Answer, recurringError |-> TRUE, session |-> None],
                                         [templates |-> Answer, error |-> TRUE, session |-> "open"]}])>>,
           fail  |-> [error |-> TRUE, recurringError |-> TRUE, session |-> None],
           final |-> [loading |-> FALSE]])
ChangesExpenses(call, start, then, final) ==
  Handler([start |-> start @@ [error |-> FALSE],
           steps |-> <<Await([calls |-> {call}, then |-> {then @@ Runs("load")}])>>,
           fail  |-> [error |-> TRUE],
           final |-> final])
SubmitExpense(call) ==
  [ChangesExpenses(call, [saving |-> TRUE], [editing |-> None, form |-> "bad"],
                   [saving |-> FALSE]) EXCEPT
     !.needs = <<Unless({[form |-> {"good"}], [form |-> {"cash"}, session |-> {"open"}]},
                        [error |-> TRUE])>>]
ChangesRow(call) ==
  [ChangesExpenses(call, [updating |-> Arg], Nothing, [updating |-> None]) EXCEPT
     !.takes = Rows, !.except = {"updating"}]
MarkPaidInCash ==
  [ChangesRow("markExpensePaid") EXCEPT
     !.needs = <<Unless({[session |-> {"open"}]}, [error |-> TRUE])>>]
SaveRecurring ==
  [ChangesExpenses("createRecurringExpense", [recurringBusy |-> TRUE], [template |-> "bad"],
                   [recurringBusy |-> FALSE]) EXCEPT
     !.needs = <<Unless({[template |-> {"good"}]}, [error |-> TRUE])>>]
(* Rows the checks reject are offered for another try; rows the call       *)
(* failed for are only told, for they may have been stored.                *)
ImportExpenses ==
  Handler([start |-> [importing |-> TRUE, error |-> FALSE, rejected |-> FALSE, retry |-> FALSE],
           steps |-> <<Await([calls |-> {"readFile"}]),
                       Await([calls |-> {"createExpense"},
                              then  |-> {Runs("load"), [rejected |-> TRUE] @@ Runs("load"),
                                         [rejected |-> TRUE, retry |-> TRUE] @@ Unchanged,
                                         [rejected |-> TRUE, retry |-> TRUE] @@ Runs("load")},
                              fail  |-> [rejected |-> TRUE],
                              stop  |-> FALSE])>>,
           fail  |-> [error |-> TRUE],
           final |-> [importing |-> FALSE]])

ExpensesHandlers ==
  [load    |-> LoadExpenses,
   retry   |-> Does(Runs("load")),
   fill    |-> Sets("form", {"bad", "good"}),
   inCash  |-> Does([form |-> "cash"]),
   edit    |-> Does([editing |-> "r1", form |-> "good"]),
   stopEditing |-> Does([editing |-> None, form |-> "bad"]),
   create  |-> SubmitExpense("createExpense"),
   update  |-> SubmitExpense("updateExpense"),
   pay     |-> ChangesRow("markExpensePaid"),
   payInCash |-> MarkPaidInCash,
   fillTemplate |-> Sets("template", {"bad", "good"}),
   saveTemplate |-> SaveRecurring,
   generate |-> ChangesRow("generateRecurringExpense"),
   pause    |-> ChangesRow("setRecurringExpenseActive"),
   import   |-> ImportExpenses]
ExpensesControls ==
  LET idle == [saving |-> {FALSE}]
      row  == [expenses |-> Loaded, loading |-> {FALSE}]
      rule == {[templates |-> Loaded]}
  IN [retry   |-> {[error |-> {TRUE}], [recurringError |-> {TRUE}]},
      fill    |-> Always,
      inCash  |-> {[editing |-> {None}, session |-> {"open"}]},
      edit    |-> {row},
      stopEditing |-> {idle @@ [editing |-> Rows]},
      create  |-> {idle @@ [editing |-> {None}]},
      update  |-> {idle @@ [editing |-> Rows]},
      pay     |-> {row @@ idle},
      payInCash |-> {row @@ idle},
      fillTemplate |-> Always,
      saveTemplate |-> {[recurringBusy |-> {FALSE}]},
      generate |-> rule,
      pause    |-> rule,
      import   |-> {[importing |-> {FALSE}]}]

ExpensesPage ==
  ScreenOf([states   |-> {Shown([expenses |-> None, templates |-> None, session |-> None,
                                 loading |-> TRUE, error |-> FALSE, recurringError |-> FALSE,
                                 form |-> "bad", editing |-> None, saving |-> FALSE,
                                 updating |-> None, template |-> "bad", recurringBusy |-> FALSE,
                                 importing |-> FALSE, rejected |-> FALSE, retry |-> FALSE])},
            handlers |-> ExpensesHandlers,
            controls |-> ExpensesControls,
            effects  |-> <<OnMount("load")>>,
            data     |-> [expenses |-> {"expense"}, templates |-> {"template"}],
            again    |-> {"generate", "pause", "pay", "payInCash"}, \* one row at a time is marked busy
            busy     |-> {"loading", "saving", "recurringBusy", "importing"},
            alerts   |-> {"error", "recurringError", "rejected"}])

(***************************************************************************)
(* financial-reporting.tsx: a report of a period.  A counter of the runs   *)
(* drops the answers of all but the last.                                  *)
(***************************************************************************)
GenerateReport(range) ==
  Handler([latest |-> "run", cancels |-> {"generate", "choosePeriod"},
           reads |-> {"range", "branch"},
           start |-> range @@ [busy |-> TRUE, error |-> FALSE, report |-> None],
           steps |-> <<Await([calls |-> {"financialReport"}, then |-> {[report |-> Answer]}])>>,
           fail  |-> [error |-> TRUE],
           final |-> [busy |-> FALSE]])
ReportGenerated == {[q |-> [range |-> r, branch |-> b], fresh |-> f] :
                      r \in {"week", "month"}, b \in {"ALL", "r1"}, f \in BOOLEAN}

FixiFinancialReportingPage ==
  ScreenOf([states   |-> {Shown([range |-> "month", branch |-> "ALL", branches |-> None,
                                 report |-> None, busy |-> FALSE, error |-> FALSE])},
            handlers |-> [branches |-> Handler([latest |-> "run",
                                                steps  |-> <<Await([calls |-> {"listBranches"},
                                                                    then  |-> {[branches |-> Answer]}])>>,
                                                fail   |-> [error |-> TRUE]]),
                          generate |-> GenerateReport(Nothing),
                          choosePeriod |-> [GenerateReport([range |-> Arg]) EXCEPT
                                              !.takes = {"week", "month"}],
                          chooseDates  |-> Sets("range", {"week", "month"}),
                          chooseBranch |-> Sets("branch", {"ALL", "r1"})],
            controls |-> [generate |-> {[busy |-> {FALSE}]},
                          choosePeriod |-> Always,
                          chooseDates  |-> Always,
                          chooseBranch |-> {[branches |-> Loaded], [branch |-> {"r1"}]}],
            effects  |-> <<OnMount("branches")>>,
            data     |-> [report |-> {"order", "expense", "purchase"}, branches |-> {"branch"}],
            outrun   |-> {"report"}, \* the page says that the report is old
            busy     |-> {"busy"},
            alerts   |-> {"error"}])

(***************************************************************************)
(* operations.tsx: counting the stock of a branch.  A count is refused     *)
(* when the stock is no longer what the page showed, until the user has    *)
(* confirmed it.                                                           *)
(***************************************************************************)
LoadCountRights ==
  [QueryOf({"effectiveCapabilities"}, {"branch"}, "rights", "rightsLoading", "rightsError") EXCEPT
     !.steps = <<Await([calls |-> {"effectiveCapabilities"},
                        then  |-> {[rights |-> "count"], [rights |-> "see"]}])>>]
LoadCountedStock ==
  Handler([reads |-> {"branch"},
           start |-> [stockLoading |-> TRUE, stockError |-> FALSE],
           steps |-> <<Await([calls |-> {"stock"},
                              then  |-> {[stock |-> Answer, stale |-> s] : s \in BOOLEAN}])>>,
           fail  |-> [stockError |-> TRUE],
           final |-> [stockLoading |-> FALSE]])
NoCount == [counting |-> None, count |-> "bad", confirmed |-> FALSE]
SaveCount ==
  Handler([takes |-> Rows,
           needs |-> <<Unless({[branch |-> Rows, rights |-> {"count"}]}, Nothing),
                       Unless({[count |-> {"good"}]}, [problem |-> TRUE])>>,
           reads |-> {"branch"},
           start |-> [countBusy |-> TRUE, problem |-> FALSE],
           steps |-> <<Await([calls |-> {"recordStockCount"},
                              then  |-> {NoCount, [problem |-> TRUE, confirmed |-> FALSE]}]),
                       Inline(LoadCountedStock)>>,
           fail  |-> [problem |-> TRUE],
           final |-> [countBusy |-> FALSE]])

InventoryReportingPage ==
  ScreenOf([states   |-> {Shown(QueryState @@ NoCount @@
                                [products |-> None, branch |-> "", rights |-> None,
                                 rightsLoading |-> FALSE, rightsError |-> FALSE, stock |-> None,
                                 stockLoading |-> FALSE, stockError |-> FALSE, stale |-> FALSE,
                                 countBusy |-> FALSE, problem |-> FALSE])},
            handlers |-> [load   |-> Query({"listProducts", "listBranches", "listSuppliers",
                                            "currentUser"}, {}, "products"),
                          rights |-> LoadCountRights,
                          stock  |-> LoadCountedStock,
                          branch |-> Handler([takes |-> Rows, start |-> [branch |-> Arg] @@ NoCount]),
                          open   |-> Handler([takes |-> Rows, except |-> {"counting"},
                                              start |-> [counting |-> Arg, count |-> "bad",
                                                         confirmed |-> FALSE, stale |-> FALSE]]),
                          close  |-> Does([counting |-> None]),
                          fill   |-> Sets("count", {"bad", "good"}),
                          agree  |-> Does([confirmed |-> TRUE, stale |-> FALSE]),
                          apply  |-> SaveCount],
            controls |-> [branch |-> {[countBusy |-> {FALSE}]},
                          open   |-> {[countBusy |-> {FALSE}, branch |-> Rows, rights |-> {"count"},
                                       products |-> Loaded]},
                          close  |-> {[countBusy |-> {FALSE}, counting |-> Rows, rights |-> {"count"}]},
                          fill   |-> {[counting |-> Rows]},
                          agree  |-> {[counting |-> Rows, stale |-> {TRUE}]},
                          apply  |-> {[counting |-> Rows, countBusy |-> {FALSE}, rights |-> {"count"},
                                       stale |-> {FALSE}],
                                      [counting |-> Rows, countBusy |-> {FALSE}, rights |-> {"count"},
                                       confirmed |-> {TRUE}]}],
            effects  |-> <<OnMount("load"), [run |-> "rights", deps |-> {"branch"}],
                           [run |-> "stock", deps |-> {"branch"}]>>,
            data     |-> [products |-> {"product"}, stock |-> {"stock"}],
            outrun   |-> {"stock"}, \* of two branches the last answer stays
            busy     |-> {"loading", "rightsLoading", "stockLoading", "countBusy"},
            alerts   |-> {"error", "rightsError", "stockError", "problem"}])

(***************************************************************************)
(* operations.tsx: the page of suppliers and, on the same route, the panel *)
(* that archives one.  Each has a list of its own, and loads only that     *)
(* after its changes.  What the form refuses it reports as if the call had *)
(* been refused.                                                           *)
(***************************************************************************)
LoadSuppliers  == Query({"listSuppliers"}, {}, "suppliers")
LoadLifecycles == QueryOf({"listSuppliers"}, {}, "lifecycles", "panelLoading", "panelError")
SaveSupplier(call) ==
  [Changes(call, "busy", [editing |-> FALSE], <<Inline(LoadSuppliers)>>) EXCEPT
     !.needs = <<Unless({[manages |-> {TRUE}]}, Nothing)>>]
ImportSuppliers ==
  Handler([needs |-> <<Unless({[manages |-> {TRUE}]}, Nothing)>>,
           start |-> [importing |-> TRUE, problem |-> FALSE, rejected |-> FALSE],
           steps |-> <<Await([calls |-> {"readFile"}]),
                       Await([calls |-> {"createSupplier"},
                              then  |-> {Nothing, [rejected |-> TRUE],
                                         [rejected |-> TRUE] @@ Unchanged @@ Stop},
                              fail  |-> [rejected |-> TRUE] @@ Stop,
                              stop  |-> FALSE]),
                       Inline(LoadSuppliers)>>,
           fail  |-> [problem |-> TRUE],
           final |-> [importing |-> FALSE]])
SetSupplierActive ==
  Handler([needs |-> <<Unless({[chosen |-> {TRUE}, lifecycles |-> Loaded]}, Nothing)>>,
           start |-> [panelBusy |-> TRUE, panelProblem |-> FALSE],
           steps |-> <<Await([calls |-> {"setSupplierActive"}]), Inline(LoadLifecycles)>>,
           fail  |-> [panelProblem |-> TRUE],
           final |-> [panelBusy |-> FALSE]])

SuppliersPage ==
  ScreenOf([states   |-> {Shown(QueryState @@
                                [suppliers |-> None, manages |-> FALSE, editing |-> FALSE,
                                 busy |-> FALSE, importing |-> FALSE, problem |-> FALSE,
                                 rejected |-> FALSE, lifecycles |-> None, panelLoading |-> TRUE,
                                 panelError |-> FALSE, chosen |-> FALSE, panelBusy |-> FALSE,
                                 panelProblem |-> FALSE])},
            handlers |-> [load   |-> LoadSuppliers,
                          session |-> Handler([steps |-> <<Await([calls |-> {"currentUser"},
                                                 then |-> {[manages |-> m] : m \in BOOLEAN}])>>]),
                          edit   |-> Does([editing |-> TRUE]),
                          stopEditing |-> Does([editing |-> FALSE]),
                          create |-> SaveSupplier("createSupplier"),
                          update |-> SaveSupplier("updateSupplier"),
                          import |-> ImportSuppliers,
                          loadPanel |-> LoadLifecycles,
                          choose |-> Sets("chosen", BOOLEAN),
                          toggle |-> SetSupplierActive],
            controls |-> [edit   |-> {[suppliers |-> Loaded]},
                          stopEditing |-> {[busy |-> {FALSE}, editing |-> {TRUE}]},
                          create |-> {[busy |-> {FALSE}, editing |-> {FALSE}]},
                          update |-> {[busy |-> {FALSE}, editing |-> {TRUE}]},
                          import |-> {[importing |-> {FALSE}]},
                          choose |-> {[lifecycles |-> Loaded]},
                          toggle |-> {[panelBusy |-> {FALSE}, chosen |-> {TRUE},
                                       lifecycles |-> Loaded]}],
            effects  |-> <<OnMount("load"), OnMount("session"), OnMount("loadPanel")>>,
            data     |-> [suppliers |-> {"supplier"}, lifecycles |-> {"supplier"}],
            untold   |-> [suppliers |-> {"toggle"}, \* each list is loaded after its own changes
                          lifecycles |-> {"create", "update", "import"}],
            busy     |-> {"loading", "busy", "importing", "panelLoading", "panelBusy"},
            alerts   |-> {"error", "problem", "rejected", "panelError", "panelProblem"}])
=============================================================================
