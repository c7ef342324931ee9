-------------------------- MODULE BillingScreens ---------------------------
(***************************************************************************)
(* Invoices, the restaurant and the two dashboards of the hotel client     *)
(* (src/frontend/src/pages).                                               *)
(***************************************************************************)
EXTENDS Screens

BillingCalls ==
  [getAllInvoices     |-> Get({"invoice"}),
   getInvoiceById     |-> Get({"invoice"}),
   getInvoiceByStayId |-> Get({"invoice"}),
   addCharge          |-> Put({"invoice"}),
   processPayment     |-> Put({"invoice"}),
   searchInvoices     |-> Get({"invoice", "guest"}),
   updateDocumentType |-> Put({"invoice"}),
   updateSdiStatus    |-> Put({"invoice"})]

OrderCalls ==
  [createOrder    |-> Put({"order"}),
   getOrderById   |-> Get({"order"}),
   getAllOrders   |-> Get({"order"}),
   getOrdersByStayId |-> Get({"order"}),
   confirmOrder   |-> Put({"order", "invoice"}),
   getMenuItems   |-> Get({"menu"}),
   createMenuItem |-> Put({"menu"}),
   updateMenuItem |-> Put({"menu"}),
   deleteMenuItem |-> Put({"menu"})]

(* The numbers of the dashboard come from four lists and the owner report. *)
getDashboardStats ==
  Get({"reservation", "stay", "room", "rate", "invoice"})
ReportCalls == [getOwnerFinancialReport |-> Get({"invoice"}),
                getDashboardStats       |-> getDashboardStats]

(***************************************************************************)
(* Billing.tsx with PaymentModal.tsx and InvoiceDetailModal.tsx            *)
(***************************************************************************)
PaymentState == [amount |-> "good", amountError |-> FALSE, paying |-> FALSE]

BillingState ==
  {Shown([rows |-> None, page |-> 0, filter |-> "", loading |-> TRUE, error |-> FALSE,
          status |-> "ISSUED", payment |-> None, detail |-> FALSE] @@ PaymentState)}

LoadInvoices ==
  Loads({"searchInvoices"}, {"filter", "page"},
        {[rows |-> Answer, status |-> s] : s \in {"ISSUED", "PAID"}})

(* What is put in the list is not the answer: it is the invoice as it was, *)
(* with the payment, marked as paid.                                       *)
RegisterPayment ==
  Handler([part  |-> "payment",
           needs |-> <<Unless({[amount |-> {"good"}]}, [amountError |-> TRUE])>>,
           start |-> [paying |-> TRUE],
           steps |-> <<Await([calls |-> {"processPayment"},
                              then  |-> {Done @@ [rows |-> Patched, status |-> "PAID",
                                                  payment |-> None]}])>>,
           fail  |-> Sorry,
           final |-> [paying |-> FALSE]])

BillingHandlers ==
  [search    |-> Search("filter"),
   setFilter |-> Sets("filter", {"", "x"}),
   firstPage |-> Does([page |-> 0]),
   load      |-> LoadInvoices,
   previous  |-> Does([page |-> 0]),
   next      |-> Does([page |-> 1]),
   view      |-> Does([detail |-> TRUE]),
   closeDetail |-> Does([detail |-> FALSE]),
   pay       |-> Does([payment |-> "open"]),
   setAmount |-> Handler([takes |-> {"bad", "good"},
                          start |-> [amount |-> Arg, amountError |-> FALSE]]),
   register  |-> RegisterPayment,
   closePayment |-> Does([payment |-> None])]

BillingControls ==
  LET top    == [payment |-> {None}, detail |-> {FALSE}]
      listed == top @@ [loading |-> {FALSE}, error |-> {FALSE}]
  IN  Within(top, [search |-> Always, setFilter |-> Always,
                   load   |-> {[loading |-> {FALSE}, error |-> {TRUE}]}])
   @@ Within(listed, [view     |-> Always,
                      pay      |-> {[status |-> {"ISSUED"}]},
                      previous |-> {[page |-> {1}]},
                      next     |-> {[page |-> {0}]}])
   @@ [closeDetail |-> {[detail |-> {TRUE}]}]
   @@ Within([payment |-> {"open"}],
             [setAmount    |-> Always,
              closePayment |-> Always,
              register     |-> {[paying |-> {FALSE}]}])

Billing ==
  ScreenOf([states   |-> BillingState,
            handlers |-> BillingHandlers,
            controls |-> BillingControls,
            effects  |-> <<[run |-> "firstPage", deps |-> {"filter"}],
                           [run |-> "load",      deps |-> {"filter", "page"}]>>,
            parts    |-> [payment |-> PaymentState],
            data     |-> [rows |-> {"invoice"}],
            outrun   |-> {"rows"}, \* of two loads the last answer stays
            busy     |-> {"loading", "paying"},
            alerts   |-> {"error"}])

(***************************************************************************)
(* Restaurant.tsx with OrderFormModal.tsx, OrderDetailModal.tsx and        *)
(* MenuFormModal.tsx.  One order, one item of the menu.                    *)
(***************************************************************************)
OrderFormState ==
  [stays |-> FALSE, staysLoading |-> TRUE, items |-> FALSE, itemsLoading |-> TRUE,
   stay |-> FALSE, stayError |-> FALSE, quantity |-> 0, ordering |-> FALSE]
MenuFormState == [form |-> "bad", formError |-> FALSE, saving |-> FALSE]

RestaurantState ==
  {Shown([rows |-> None, loading |-> TRUE, error |-> FALSE, confirming |-> None,
          orderForm |-> None, detail |-> FALSE, menu |-> None, menuForm |-> None,
          deleting |-> None] @@ OrderFormState @@ MenuFormState)}

LoadOrders == Loads({"getAllOrders"}, {}, {[rows |-> Answer]})
LoadMenu ==
  Handler([steps |-> <<Await([calls |-> {"getMenuItems"}, then |-> {[menu |-> Answer]}])>>])

ConfirmOrder ==
  Handler([takes |-> Rows, except |-> {"confirming"},
           start |-> [confirming |-> Arg],
           steps |-> <<Await([calls |-> {"confirmOrder"}]), Inline(LoadOrders)>>,
           fail  |-> Sorry,
           final |-> [confirming |-> None]])

(* The user is asked first, and nothing runs meanwhile (window.confirm).   *)
DeleteMenuItem ==
  Handler([takes |-> Rows, except |-> {"deleting"},
           start |-> [deleting |-> Arg],
           steps |-> <<Await([calls |-> {"deleteMenuItem"}, then |-> {Done}]),
                       Inline(LoadMenu)>>,
           fail  |-> Sorry,
           final |-> [deleting |-> None]])

LoadOrderMenu ==
  Handler([part  |-> "orderForm",
           needs |-> <<Unless({[orderForm |-> {"new"}]}, Nothing)>>,
           steps |-> <<Await([calls |-> {"getMenuItems"},
                              then  |-> {[items |-> TRUE], [items |-> FALSE]}])>>,
           final |-> [itemsLoading |-> FALSE]])

LoadActiveStays ==
  Handler([part  |-> "orderForm",
           needs |-> <<Unless({[orderForm |-> {"new"}]}, Nothing)>>,
           steps |-> <<Await([calls |-> {"getAllStays"},
                              then  |-> {[stays |-> TRUE], [stays |-> FALSE]}])>>,
           final |-> [staysLoading |-> FALSE]])

CreateOrder ==
  Handler([part  |-> "orderForm",
           needs |-> <<Unless({[stay |-> {TRUE}]}, [stayError |-> TRUE]),
                       Unless({[quantity |-> {1}]}, Sorry)>>,
           start |-> [ordering |-> TRUE],
           steps |-> <<Await([calls |-> {"createOrder"},
                              then  |-> {Done @@ Runs("load") @@ [orderForm |-> None]}])>>,
           fail  |-> Sorry,
           final |-> [ordering |-> FALSE]])

SaveMenuItem ==
  Handler([part  |-> "menuForm",
           needs |-> <<Unless({[form |-> {"good"}]}, [formError |-> TRUE])>>,
           start |-> [formError |-> FALSE, saving |-> TRUE],
           steps |-> <<Await([calls |-> {"updateMenuItem", "createMenuItem"},
                              then  |-> {Done @@ Runs("loadMenu") @@ [menuForm |-> None]}])>>,
           fail  |-> Sorry,
           final |-> [saving |-> FALSE]])

(* The products of the inventory that an item may consume.                 *)
LoadProducts ==
  Handler([part  |-> "menuForm",
           needs |-> <<Unless({[menuForm |-> {"new", "r1"}]}, Nothing)>>,
           steps |-> <<Await([calls |-> {"listProducts"}])>>,
           fail  |-> [formError |-> TRUE]])

OrderFormModal ==
  [chooseStay |-> Does([stay |-> TRUE, stayError |-> FALSE]),
   increment  |-> Does([quantity |-> 1]),
   decrement  |-> Does([quantity |-> 0]),
   create     |-> CreateOrder,
   closeOrder |-> Does([orderForm |-> None])]
MenuFormModal ==
  [fill      |-> Sets("form", {"bad", "good"}),
   save      |-> SaveMenuItem,
   closeMenu |-> Does([menuForm |-> None])]

RestaurantHandlers ==
  OrderFormModal @@ MenuFormModal @@
  [load          |-> LoadOrders,
   loadMenu      |-> LoadMenu,
   loadOrderMenu |-> LoadOrderMenu,
   loadStays     |-> LoadActiveStays,
   loadProducts  |-> LoadProducts,
   confirm       |-> ConfirmOrder,
   view          |-> Does([detail |-> TRUE]),
   closeDetail   |-> Does([detail |-> FALSE]),
   newOrder      |-> Does([orderForm |-> "new"]),
   newItem       |-> Does([menuForm |-> "new"]),
   editItem      |-> Does([menuForm |-> "r1", form |-> "good"]),
   deleteItem    |-> DeleteMenuItem]

OrderFormControls ==
  Within([orderForm |-> {"new"}],
    [closeOrder |-> Always,
     chooseStay |-> {[staysLoading |-> {FALSE}, stays |-> {TRUE}]},
     increment  |-> {[itemsLoading |-> {FALSE}, items |-> {TRUE}, quantity |-> {0}]},
     decrement  |-> {[itemsLoading |-> {FALSE}, items |-> {TRUE}, quantity |-> {1}]},
     create     |-> {[ordering |-> {FALSE}]}])
MenuFormControls ==
  Within([menuForm |-> {"new", "r1"}],
    [fill |-> Always, closeMenu |-> Always, save |-> {[saving |-> {FALSE}]}])

RestaurantControls ==
  LET top    == [orderForm |-> {None}, menuForm |-> {None}, detail |-> {FALSE}]
      listed == top @@ [loading |-> {FALSE}, error |-> {FALSE}]
      known  == {[q |-> Nothing, fresh |-> f] : f \in BOOLEAN}
  IN OrderFormControls @@ MenuFormControls
   @@ Within(top, [newOrder   |-> Always,
                   newItem    |-> Always,
                   editItem   |-> {[menu |-> known]},
                   deleteItem |-> {[menu |-> known]},
                   load       |-> {[loading |-> {FALSE}, error |-> {TRUE}]}])
   @@ Within(listed, [view |-> Always, confirm |-> Always])
   @@ [closeDetail |-> {[detail |-> {TRUE}]}]

Restaurant ==
  ScreenOf([states   |-> RestaurantState,
            handlers |-> RestaurantHandlers,
            controls |-> RestaurantControls,
            effects  |-> <<[run |-> "load",          deps |-> {}],
                           [run |-> "loadMenu",      deps |-> {}],
                           [run |-> "loadOrderMenu", deps |-> {"orderForm"}],
                           [run |-> "loadStays",     deps |-> {"orderForm"}],
                           [run |-> "loadProducts",  deps |-> {"menuForm"}]>>,
            parts    |-> [orderForm |-> OrderFormState, menuForm |-> MenuFormState],
            data     |-> [rows |-> {"order"}, menu |-> {"menu"}],
            untold   |-> [menu |-> {"save", "deleteItem"}], \* it may fail to load and does not tell
            again    |-> {"confirm", "deleteItem"}, \* one row at a time is marked busy
            busy     |-> {"loading", "ordering", "saving"},
            alerts   |-> {"error", "formError"}])

(***************************************************************************)
(* OwnerDashboard.tsx and Dashboard.tsx (with dashboardStore.ts)           *)
(***************************************************************************)
OwnerDashboardState ==
  {Shown([owner |-> o, filter |-> "", report |-> None, loading |-> FALSE, error |-> FALSE])
     : o \in BOOLEAN}

LoadReport ==
  Handler([reads |-> {"filter"},
           start |-> [loading |-> TRUE, error |-> FALSE],
           steps |-> <<Await([calls |-> {"getOwnerFinancialReport"},
                              then  |-> {[report |-> Answer]}])>>,
           fail  |-> Sorry @@ [error |-> TRUE],
           final |-> [loading |-> FALSE]])

OwnerDashboardHandlers ==
  [loadReport |-> LoadReport,
   dates      |-> Sets("filter", {"", "x"}),
   export     |-> Does(Done)]

OwnerDashboardControls ==
  Within([owner |-> {TRUE}],
    [dates      |-> Always,
     loadReport |-> {[loading |-> {FALSE}]},
     export     |-> {[report |-> {[q |-> [filter |-> x], fresh |-> f]
                                    : x \in {"", "x"}, f \in BOOLEAN}]}])

OwnerDashboard ==
  ScreenOf([states   |-> OwnerDashboardState,
            handlers |-> OwnerDashboardHandlers,
            controls |-> OwnerDashboardControls,
            data     |-> [report |-> {"invoice"}],
            outrun   |-> {"report"}, \* the dates wait for another report
            busy     |-> {"loading"},
            alerts   |-> {"error"}])

fetchStats ==
  Handler([start |-> [isLoading |-> TRUE, error |-> FALSE],
           steps |-> <<Await([calls |-> {"getDashboardStats"},
                              then  |-> {[stats |-> Answer, isLoading |-> FALSE]},
                              fail  |-> [error |-> TRUE, isLoading |-> FALSE]])>>])

Dashboard ==
  ScreenOf([states   |-> {Shown([stats |-> None, isLoading |-> FALSE, error |-> FALSE])},
            handlers |-> [fetch    |-> fetchStats,
                          view     |-> Goes("card"),
                          rooms    |-> Goes("/housekeeping")],
            controls |-> [fetch |-> {[error |-> {TRUE}]},
                          view  |-> {[error |-> {FALSE}]},
                          rooms |-> {[error |-> {FALSE},
                                      stats |-> {[q |-> Nothing, fresh |-> f]
                                                   : f \in BOOLEAN}]}],
            effects  |-> <<[run |-> "fetch", deps |-> {}]>>,
            data     |-> [stats |-> {"reservation", "stay", "room", "invoice"}],
            busy     |-> {"isLoading"},
            alerts   |-> {"error"}])
=============================================================================
