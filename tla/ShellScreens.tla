---------------------------- MODULE ShellScreens ----------------------------
(***************************************************************************)
(* What surrounds the pages (src/frontend/src): the layout of the hotel    *)
(* client with its navigation, menu and toasts, and the shell of the       *)
(* repair client with its sidebar, its lock and its search.                *)
(***************************************************************************)
EXTENDS StoreScreens

(***************************************************************************)
(* layouts/MainLayout.tsx with components/UserMenu.tsx.  It stays mounted  *)
(* while the pages inside it change; only signing out leaves it.           *)
(***************************************************************************)
FrontDesk == {"OWNER", "ADMIN", "RECEPTIONIST"}
LayoutCalls == [loadHotelSettings |-> Get({"hotel"})]
(* A click in the drawer closes it; without it the rail is clicked.        *)
Visit(paths) == Handler([takes |-> paths, start |-> [path |-> Arg, drawerOpen |-> FALSE]])
UserMenuHandlers ==
  [openMenu     |-> Does([userMenuOpen |-> TRUE]),
   closeMenu    |-> Does([userMenuOpen |-> FALSE]),
   openSettings |-> Does([userMenuOpen |-> FALSE, path |-> "/settings"]),
   logout       |-> Goes("/login")]
UserMenuControls ==
  "openMenu" :> {[userMenuOpen |-> {FALSE}]}
  @@ Within([userMenuOpen |-> {TRUE}],
       [closeMenu |-> Always, openSettings |-> Always, logout |-> Always])
LayoutHandlers ==
  UserMenuHandlers @@
  [loadSettings |-> Handler([steps |-> <<Await([calls |-> {"loadHotelSettings"}])>>]),
   openDrawer   |-> Does([drawerOpen |-> TRUE]),
   closeDrawer  |-> Does([drawerOpen |-> FALSE]),
   visit        |-> Visit({"/", "/restaurant", "/assistant"}),
   visitKitchen |-> Visit({"/restaurant"}),
   visitRooms   |-> Visit({"/housekeeping"}),
   visitOwners  |-> Visit({"/admin"}),
   openCheckIn  |-> Does([path |-> "/stays/walk-in"])]
(* Who sees which entry; the owners' entries follow the others.            *)
LayoutNavigation ==
  [visit        |-> {[role |-> FrontDesk]},
   visitKitchen |-> {[role |-> {"KITCHEN"}]},
   visitRooms   |-> {[role |-> {"HOUSEKEEPER"}]},
   visitOwners  |-> {[role |-> {"OWNER", "ADMIN"}]},
   openCheckIn  |-> {[role |-> FrontDesk]}]
LayoutControls ==
  LayoutNavigation @@ UserMenuControls
  @@ [openDrawer  |-> {[drawerOpen |-> {FALSE}]},
      closeDrawer |-> {[drawerOpen |-> {TRUE}]}]
MainLayout ==
  ScreenOf([states   |-> {Shown([role |-> r, drawerOpen |-> FALSE, userMenuOpen |-> FALSE,
                                 path |-> "/"]) :
                            r \in {"ADMIN", "RECEPTIONIST", "KITCHEN", "HOUSEKEEPER"}},
            handlers |-> LayoutHandlers,
            controls |-> LayoutControls,
            effects  |-> <<[run |-> "loadSettings", deps |-> {}]>>])

(***************************************************************************)
(* components/Toast.tsx over store/toastStore.ts: each toast goes by       *)
(* itself after a while, or when it is dismissed; two that are shown.      *)
(***************************************************************************)
ToastHandlers ==
  [addFirst     |-> Handler([start |-> [first |-> TRUE],
                             steps |-> <<Await([then |-> {[first |-> FALSE]}])>>]),
   addSecond    |-> Handler([start |-> [second |-> TRUE],
                             steps |-> <<Await([then |-> {[second |-> FALSE]}])>>]),
   removeFirst  |-> Does([first |-> FALSE]),
   removeSecond |-> Does([second |-> FALSE])]
ToastContainer ==
  ScreenOf([states   |-> {Shown([first |-> FALSE, second |-> FALSE])},
            handlers |-> ToastHandlers,
            controls |-> [addFirst     |-> {[first |-> {FALSE}]},
                          addSecond    |-> {[second |-> {FALSE}]},
                          removeFirst  |-> {[first |-> {TRUE}]},
                          removeSecond |-> {[second |-> {TRUE}]}]])

(***************************************************************************)
(* components/session-idle-lock.tsx: it reads who is signed in and the     *)
(* idle limit, watches for activity, and locks.  It reads both again each  *)
(* time it locks or unlocks.  A preference that is missing, or that cannot *)
(* be read, takes the lock off.  A run that is outdated starts no watch;   *)
(* here it may, as the first of two runs of the preference's event does.   *)
(***************************************************************************)
LockCalls ==
  [currentUser                  |-> Get({"session"}),
   getSessionSecurityPreference |-> Get({"preference"}),
   unlockLogin                  |-> Put({"session"}),
   lockLogout                   |-> Put({"session"})]
Configure ==
  Handler([start |-> [watching |-> FALSE],
           steps |-> <<Await([calls |-> {"currentUser", "getSessionSecurityPreference"},
                              then  |-> {[watching |-> TRUE], [locked |-> FALSE], Nothing}])>>])
Unlock ==
  Handler([start |-> [busy |-> TRUE, error |-> FALSE],
           steps |-> <<Await([calls |-> {"unlockLogin"},
                              then  |-> {[locked |-> FALSE]}])>>,
           fail  |-> [error |-> TRUE],
           final |-> [busy |-> FALSE]])
LockSignOut ==
  Handler([start |-> [busy |-> TRUE],
           steps |-> <<Await([calls |-> {"lockLogout"}, then |-> {[goto |-> "/login"]},
                              fail  |-> [goto |-> "/login"]])>>,
           final |-> [busy |-> FALSE]])
LockControls ==
  Within([locked |-> {TRUE}, busy |-> {FALSE}], [unlock |-> Always, signOut |-> Always])
  @@ [idle |-> {[watching |-> {TRUE}, locked |-> {FALSE}]}]
SessionIdleLock ==
  ScreenOf([states   |-> {Shown([locked |-> FALSE, watching |-> FALSE, busy |-> FALSE,
                                 error |-> FALSE])},
            handlers |-> [configure |-> Configure,
                          idle      |-> Does([locked |-> TRUE, error |-> FALSE]),
                          unlock    |-> Unlock,
                          signOut   |-> LockSignOut],
            controls |-> LockControls,
            effects  |-> <<[run |-> "configure", deps |-> {"locked"}]>>,
            busy     |-> {"busy"},
            alerts   |-> {"error"}])

(***************************************************************************)
(* The sidebar (components/ui/sidebar.tsx), with the user's menu in it and *)
(* the panel that arranges it.  On a small screen it is a sheet, whose     *)
(* state is another than the desktop's.  No page shows the panel, and the  *)
(* layout does not read the arrangement that it sets.                      *)
(***************************************************************************)
SidebarCalls == [sidebarUser |-> Get({"session"}), sidebarLogout |-> Put({"session"})]
SidebarHandlers ==
  [loadUser   |-> Handler([steps |-> <<Await([calls |-> {"sidebarUser"},
                                              then  |-> {[name |-> "user"], Nothing}])>>]),
   signOut    |-> Handler([steps |-> <<Await([calls |-> {"sidebarLogout"},
                                              then  |-> {[goto |-> "/login"]}])>>]),
   expand     |-> Does([open |-> TRUE]),
   collapse   |-> Does([open |-> FALSE]),
   openSheet  |-> Does([openMobile |-> TRUE]),
   closeSheet |-> Does([openMobile |-> FALSE]),
   shrink     |-> Does([isMobile |-> TRUE]),
   widen      |-> Does([isMobile |-> FALSE])]
(* Choosing icons collapses an open sidebar, or works the sheet instead.   *)
LayoutTab ==
  [selectVariant     |-> Sets("variant", {"inset", "floating"}),
   selectSide        |-> Sets("side", {"left", "right"}),
   selectCollapsible |-> Sets("collapsible", {"offcanvas", "none"}),
   selectIcon        |-> Does([collapsible |-> "icon"]),
   selectIconOpen    |-> Does([collapsible |-> "icon", open |-> FALSE]),
   selectIconMobile  |-> Does([collapsible |-> "icon", openMobile |-> TRUE]),
   selectIconSheet   |-> Does([collapsible |-> "icon", openMobile |-> FALSE])]
LayoutTabControls ==
  LET open == [open |-> {TRUE}] IN
  [selectVariant     |-> Always,
   selectSide        |-> Always,
   selectCollapsible |-> Always,
   selectIcon        |-> {[open |-> {FALSE}]},
   selectIconOpen    |-> {open @@ [isMobile |-> {FALSE}]},
   selectIconMobile  |-> {open @@ [isMobile |-> {TRUE}, openMobile |-> {FALSE}]},
   selectIconSheet   |-> {open @@ [isMobile |-> {TRUE}, openMobile |-> {TRUE}]}]
SidebarControls ==
  Within([isMobile |-> {FALSE}],
    [expand |-> {[open |-> {FALSE}]}, collapse |-> {[open |-> {TRUE}]}, shrink |-> Always])
  @@ Within([isMobile |-> {TRUE}],
       [openSheet |-> {[openMobile |-> {FALSE}]}, closeSheet |-> {[openMobile |-> {TRUE}]},
        widen |-> Always])
  @@ [signOut |-> {[isMobile |-> {FALSE}], [openMobile |-> {TRUE}]}]
AppSidebar ==
  ScreenOf([states   |-> {Shown([name |-> None, open |-> TRUE, openMobile |-> FALSE,
                                 isMobile |-> FALSE, variant |-> "inset", side |-> "left",
                                 collapsible |-> "offcanvas"])},
            again    |-> {"signOut"}, \* no busy state
            handlers |-> SidebarHandlers @@ LayoutTab,
            controls |-> SidebarControls @@ LayoutTabControls,
            effects  |-> <<[run |-> "loadUser", deps |-> {}]>>])

(* components/command-search.tsx: choosing an entry goes there and closes. *)
CommandSearch ==
  ScreenOf([states   |-> {Shown([open |-> FALSE, query |-> ""])},
            handlers |-> [openSearch   |-> Does([open |-> TRUE]),
                          closeSearch  |-> Does([open |-> FALSE]),
                          type         |-> Sets("query", {"", "x"}),
                          handleSelect |-> Handler([start |-> [goto |-> "url", open |-> FALSE]])],
            controls |-> [openSearch |-> {[open |-> {FALSE}]}]
                         @@ Within([open |-> {TRUE}],
                              [closeSearch |-> Always, type |-> Always,
                               handleSelect |-> Always])])

ShellCalls == LayoutCalls @@ LockCalls @@ SidebarCalls
=============================================================================
