--------------------------- MODULE AdminScreens ----------------------------
(***************************************************************************)
(* Users, settings, the profile of the hotel, sign-in and the public       *)
(* portal of the hotel client (src/frontend/src/pages).                    *)
(***************************************************************************)
EXTENDS Screens

UserCalls ==
  [listUsers         |-> Get({"user"}),
   createUser        |-> Put({"user"}),
   deactivateUser    |-> Put({"user"}),
   activateUser      |-> Put({"user"}),
   deleteUser        |-> Put({"user"}),
   resetUserPassword |-> Put({"password"})]
AuthCalls ==
  [login          |-> Get({"user"}),
   logout         |-> Get({"user"}),
   fetchMe        |-> Get({"user"}),
   changePassword |-> Put({"user"})]
ServiceOrderCalls == [listAll |-> Get({"serviceOrder"})]

(* The calls that the pages make themselves.                               *)
PortalCalls ==
  [getOperation |-> Get({"operation"}),
   getDocuments |-> Get({"operation"}),
   challengeOtp |-> Put({"operation"}),
   checkOtp     |-> Put({"operation"}),
   authorizeOperation |-> Put({"operation"})]
WhatsAppCalls == [getConnection |-> Get({"whatsapp"}), connectWhatsApp |-> Put({"whatsapp"})]
PlatformCalls == [listHotels |-> Get({"hotels"}), createHotel |-> Put({"hotels"})]

(***************************************************************************)
(* AdminUsers.tsx with UserRow.tsx, CreateUserModal.tsx,                   *)
(* ResetPasswordModal.tsx and DeleteUserModal.tsx.  One user, not oneself. *)
(***************************************************************************)
UserModalState == [form |-> "bad", wrong |-> FALSE, saving |-> FALSE]

AdminUsersState ==
  {Shown([rows |-> None, loading |-> TRUE, active |-> a, modal |-> None] @@ UserModalState)
     : a \in BOOLEAN}

LoadUsers ==
  Handler([steps |-> <<Await([calls |-> {"listUsers"}, then |-> {[rows |-> Answer]}])>>,
           fail  |-> Sorry,
           final |-> [loading |-> FALSE]])

ToggleUser(call, after) ==
  Handler([steps |-> <<Await([calls |-> {call},
                              then  |-> {Done @@ [rows |-> Patched, active |-> after]}])>>,
           fail  |-> Sorry])

(* What is wrong, in the form or in the answer, is said in the dialog.     *)
InUserModal(call, then) ==
  Handler([part  |-> "modal",
           needs |-> <<Unless({[form |-> {"good"}], [modal |-> {"delete"}]}, [wrong |-> TRUE])>>,
           start |-> [wrong |-> FALSE, saving |-> TRUE],
           steps |-> <<Await([calls |-> {call},
                              then  |-> {Done @@ [modal |-> None] @@ then}])>>,
           fail  |-> [wrong |-> TRUE],
           final |-> [saving |-> FALSE]])

CreateUser == InUserModal("createUser", [rows |-> Patched])
ResetPassword == InUserModal("resetUserPassword", Nothing)
DeleteUser == InUserModal("deleteUser", [rows |-> Patched])

AdminUsersHandlers ==
  [load       |-> LoadUsers,
   deactivate |-> ToggleUser("deactivateUser", FALSE),
   activate   |-> ToggleUser("activateUser", TRUE),
   openCreate |-> Does([modal |-> "create"]),
   openReset  |-> Does([modal |-> "reset"]),
   openDelete |-> Does([modal |-> "delete"]),
   fill       |-> Sets("form", {"bad", "good"}),
   close      |-> Does([modal |-> None]),
   create     |-> CreateUser,
   reset      |-> ResetPassword,
   delete     |-> DeleteUser]

(* A user can be deleted once deactivated.                                 *)
UserRow ==
  [deactivate |-> {[active |-> {TRUE}]},
   activate   |-> {[active |-> {FALSE}]},
   openReset  |-> Always,
   openDelete |-> {[active |-> {FALSE}]}]

AdminUsersControls ==
  LET top  == [modal |-> {None}]
      idle == {[saving |-> {FALSE}]}
  IN  Within(top, [openCreate |-> Always])
   @@ Within(top @@ [loading |-> {FALSE}, rows |-> {[q |-> Nothing, fresh |-> f]
                                                      : f \in BOOLEAN}], UserRow)
   @@ Within([modal |-> {"create", "reset", "delete"}], [close |-> Always])
   @@ Within([modal |-> {"create", "reset"}], [fill |-> Always])
   @@ Within([modal |-> {"create"}], [create |-> idle])
   @@ Within([modal |-> {"reset"}], [reset |-> idle])
   @@ Within([modal |-> {"delete"}], [delete |-> idle])

AdminUsers ==
  ScreenOf([states   |-> AdminUsersState,
            handlers |-> AdminUsersHandlers,
            controls |-> AdminUsersControls,
            effects  |-> <<[run |-> "load", deps |-> {}]>>,
            parts    |-> [modal |-> UserModalState],
            data     |-> [rows |-> {"user"}],
            again    |-> {"activate", "deactivate"}, \* a row has no busy state
            busy     |-> {"loading", "saving"},
            alerts   |-> {"wrong"}])

(***************************************************************************)
(* Settings.tsx and the pages it leads to: SettingsProfile.tsx,            *)
(* SettingsAccessibility.tsx (with settingsStore.ts),                      *)
(* SettingsAppearance.tsx (with themeStore.ts), SettingsPassword.tsx.      *)
(***************************************************************************)
Settings ==
  LET pages == {"back", "/settings/profile", "/settings/password", "/settings/accessibility",
                "/settings/appearance"}
      manager == {"/profile/hotel", "/admin/users", "/settings/system", "/settings/whatsapp"}
      platform == {"/platform/hotels"}
  IN ScreenOf([states   |-> {Shown([role |-> r]) : r \in {"staff", "manager", "platform"}},
               handlers |-> [p \in pages \cup manager \cup platform |-> Goes(p)],
               controls |-> [p \in pages    |-> Always]
                         @@ [p \in manager  |-> {[role |-> {"manager", "platform"}]}]
                         @@ [p \in platform |-> {[role |-> {"platform"}]}]])

SettingsProfile ==
  ScreenOf([states |-> {Shown(Nothing)}, handlers |-> [back |-> Goes("back")],
            controls |-> [back |-> Always]])

SettingsAccessibility ==
  LET sizes == {"small", "normal", "large"}
  IN ScreenOf([states   |-> {Shown([contrast |-> c, fontScale |-> s])
                               : c \in {"normal", "high"}, s \in sizes},
               handlers |-> [back     |-> Goes("back"),
                             font     |-> Sets("fontScale", sizes),
                             raise    |-> Does([contrast |-> "high"]),
                             lower    |-> Does([contrast |-> "normal"])],
               controls |-> [back     |-> Always,
                             font     |-> Always,
                             raise    |-> {[contrast |-> {"normal"}]},
                             lower    |-> {[contrast |-> {"high"}]}]])

(* The theme "system" follows the preference of the system.                *)
SettingsAppearance ==
  LET themes == {"light", "dark", "system"}
  IN ScreenOf([states   |-> {Shown([theme |-> t, language |-> "es"]) : t \in themes},
               handlers |-> [back     |-> Goes("back"),
                             theme    |-> Sets("theme", themes),
                             language |-> Sets("language", {"es", "en"})],
               controls |-> [c \in {"back", "theme", "language"} |-> Always]])

(* The session goes on with the tokens of the answer; when who-am-I fails  *)
(* the password is changed all the same.                                   *)
ChangePassword ==
  Handler([needs |-> <<Unless({[form |-> {"weak", "good"}]}, [error |-> TRUE]),
                       Unless({[form |-> {"good"}]}, [error |-> TRUE])>>,
           start |-> [error |-> FALSE, loading |-> TRUE],
           steps |-> <<Await([calls |-> {"changePassword"}, then |-> {Done}]),
                       Await([calls |-> {"fetchMe"},
                              then  |-> {Done @@ [goto |-> "back"]},
                              fail  |-> Done @@ [goto |-> "back"],
                              stop  |-> FALSE])>>,
           fail  |-> [error |-> TRUE],
           final |-> [loading |-> FALSE]])

SettingsPassword ==
  ScreenOf([states   |-> {Shown([form |-> "empty", loading |-> FALSE, error |-> FALSE])},
            handlers |-> [back   |-> Goes("back"),
                          fill   |-> Sets("form", {"empty", "mismatch", "weak", "good"}),
                          change |-> ChangePassword],
            controls |-> [back   |-> Always,
                          fill   |-> Always,
                          change |-> {[loading |-> {FALSE},
                                       form |-> {"mismatch", "weak", "good"}]}],
            busy     |-> {"loading"},
            alerts   |-> {"error"}])

(***************************************************************************)
(* SettingsSystem.tsx: every change is sent by itself, and the answer is   *)
(* what the page shows.  A failure is not told.                            *)
(***************************************************************************)
SettingsSystemState ==
  {Shown([settings |-> None, saving |-> FALSE, greeting |-> FALSE, model |-> TRUE])}

LoadHotelSettings ==
  Handler([steps |-> <<Await([calls |-> {"getHotelSettings"},
                              then  |-> {[settings |-> Answer, greeting |-> FALSE,
                                          model |-> TRUE]}])>>])

PatchSettings ==
  Handler([start |-> [saving |-> TRUE],
           steps |-> <<Await([calls |-> {"updateHotelSettings"},
                              then  |-> {[settings |-> Answer]}])>>,
           final |-> [saving |-> FALSE]])

SettingsSystemHandlers ==
  [load        |-> LoadHotelSettings,
   toggle      |-> PatchSettings,
   subject     |-> PatchSettings,
   type        |-> Does([greeting |-> TRUE]),
   greet       |-> [PatchSettings EXCEPT !.start = @ @@ [greeting |-> FALSE]],
   editModel   |-> Sets("model", BOOLEAN),
   saveAi      |-> PatchSettings,
   back        |-> Goes("back")]

(* The switches wait for the settings and for what is being saved; fields  *)
(* that save when they are left do not.                                    *)
SettingsSystemControls ==
  LET loaded == [settings |-> {[q |-> Nothing, fresh |-> f] : f \in BOOLEAN}]
  IN [toggle    |-> {loaded @@ [saving |-> {FALSE}]},
      subject   |-> {loaded},
      type      |-> Always,
      greet     |-> {[greeting |-> {TRUE}]},
      editModel |-> Always,
      saveAi    |-> {[saving |-> {FALSE}, model |-> {TRUE}]},
      back      |-> Always]

SettingsSystem ==
  ScreenOf([states   |-> SettingsSystemState,
            handlers |-> SettingsSystemHandlers,
            controls |-> SettingsSystemControls,
            effects  |-> <<[run |-> "load", deps |-> {}]>>,
            data     |-> [settings |-> {"hotel"}],
            again    |-> {"greet", "subject", "toggle", "saveAi"}, \* a field that is left is saved
            busy     |-> {"saving"}])

(***************************************************************************)
(* SettingsWhatsApp.tsx: a code to scan, valid for a while, and a poll for *)
(* the connection.  The clock works the last two controls.                 *)
(***************************************************************************)
Connections == {"not_configured", "disconnected", "connecting", "connected"}

LoadConnection ==
  Handler([steps |-> <<Await([calls |-> {"getConnection"},
                              then  |-> {[connection |-> c] : c \in Connections}])>>,
           fail  |-> [error |-> TRUE]])

ConnectWhatsApp ==
  Handler([start |-> [busy |-> TRUE, error |-> FALSE, connection |-> None],
           steps |-> <<Await([calls |-> {"connectWhatsApp"},
                              then  |-> {[connection |-> c] : c \in Connections}])>>,
           fail  |-> [error |-> TRUE],
           final |-> [busy |-> FALSE]])

(* Nothing but "connected" is taken from a poll, and nothing once what is  *)
(* shown has changed.                                                      *)
PollConnection ==
  Handler([latest |-> "run",
           steps  |-> <<Await([calls |-> {"getConnection"},
                               then  |-> {Nothing, [connection |-> "connected"]}])>>])

SettingsWhatsApp ==
  ScreenOf([states   |-> {Shown([connection |-> None, busy |-> FALSE, error |-> FALSE])},
            handlers |-> [load    |-> LoadConnection,
                          connect |-> ConnectWhatsApp,
                          settle  |-> Handler([cancels |-> {"poll"}]),
                          poll    |-> PollConnection,
                          expire  |-> Does([connection |-> "expired"]),
                          back    |-> Goes("/settings")],
            controls |-> [back    |-> Always,
                          connect |-> {[busy |-> {FALSE},
                                        connection |-> {None, "disconnected", "connecting",
                                                        "expired"}]},
                          poll    |-> {[connection |-> {"connecting"}]},
                          expire  |-> {[connection |-> {"connecting"}]}],
            effects  |-> <<[run |-> "load", deps |-> {}],
                           [run |-> "settle", deps |-> {"connection"}]>>,
            busy     |-> {"busy"},
            alerts   |-> {"error"}])

(***************************************************************************)
(* HotelProfile.tsx: the form has what was loaded, or its defaults.        *)
(***************************************************************************)
HotelProfileState ==
  {Shown([form |-> "default", loading |-> TRUE, saving |-> FALSE, errors |-> FALSE])}

LoadProfile ==
  Handler([steps |-> <<Await([calls |-> {"getHotelSettings"}, then |-> {[form |-> "good"]}])>>,
           fail  |-> Sorry,
           final |-> [loading |-> FALSE]])

SaveProfile ==
  Handler([needs |-> <<Unless({[form |-> {"default", "good"}]}, [errors |-> TRUE])>>,
           start |-> [errors |-> FALSE, saving |-> TRUE],
           steps |-> <<Await([calls |-> {"updateHotelSettings"},
                              then  |-> {Done @@ Runs("store")}])>>,
           fail  |-> Sorry,
           final |-> [saving |-> FALSE]])

(* settingsStore.ts: the settings that the rest of the client shows.       *)
loadHotelSettings == Handler([steps |-> <<Await([calls |-> {"getHotelSettings"}])>>])

HotelProfile ==
  ScreenOf([states   |-> HotelProfileState,
            handlers |-> [load  |-> LoadProfile,
                          fill  |-> Sets("form", {"bad", "good"}),
                          save  |-> SaveProfile,
                          store |-> loadHotelSettings],
            controls |-> Within([loading |-> {FALSE}],
                           [fill |-> Always, save |-> {[saving |-> {FALSE}]}]),
            effects  |-> <<[run |-> "load", deps |-> {}]>>,
            busy     |-> {"loading", "saving"}])

(***************************************************************************)
(* PlatformHotels.tsx, ServiceOrders.tsx, Login.tsx, PublicPortal.tsx      *)
(***************************************************************************)
PlatformHotels ==
  ScreenOf([states   |-> {Shown([rows |-> None, form |-> "empty", busy |-> FALSE,
                                 error |-> FALSE])},
            handlers |-> [load   |-> Handler([steps |-> <<Await([calls |-> {"listHotels"},
                                                        then |-> {[rows |-> Answer]}])>>,
                                              fail |-> [error |-> TRUE]]),
                          fill   |-> Does([form |-> "good"]),
                          create |-> Handler([start |-> [busy |-> TRUE, error |-> FALSE],
                                              steps |-> <<Await([calls |-> {"createHotel"},
                                                          then |-> {[rows |-> Patched,
                                                                     form |-> "empty"]}])>>,
                                              fail  |-> [error |-> TRUE],
                                              final |-> [busy |-> FALSE]])],
            controls |-> [fill   |-> Always,
                          create |-> {[busy |-> {FALSE}, form |-> {"good"}]}],
            effects  |-> <<[run |-> "load", deps |-> {}]>>,
            data     |-> [rows |-> {"hotels"}],
            busy     |-> {"busy"},
            alerts   |-> {"error"}])

ServiceOrders ==
  ScreenOf([states   |-> {Shown([rows |-> None, loading |-> TRUE, error |-> FALSE])},
            handlers |-> [load |-> Loads({"listAll"}, {}, {[rows |-> Answer]}),
                          open |-> Goes("/service-orders/:id")],
            controls |-> [open |-> {[loading |-> {FALSE}]}],
            effects  |-> <<[run |-> "load", deps |-> {}]>>,
            data     |-> [rows |-> {"serviceOrder"}],
            busy     |-> {"loading"},
            alerts   |-> {"error"}])

(* Signed in is known once who-am-I has answered.                          *)
SubmitLogin ==
  Handler([start |-> [loading |-> TRUE, error |-> FALSE],
           steps |-> <<Await([calls |-> {"login"}]),
                       Await([calls |-> {"fetchMe"},
                              then  |-> {[goto |-> "/"], [goto |-> "/settings/password"]}])>>,
           fail  |-> [error |-> TRUE],
           final |-> [loading |-> FALSE]])

Login ==
  ScreenOf([states   |-> {Shown([form |-> FALSE, loading |-> FALSE, error |-> FALSE])},
            handlers |-> [fill |-> Sets("form", BOOLEAN), submit |-> SubmitLogin],
            controls |-> [fill |-> Always, submit |-> {[loading |-> {FALSE}, form |-> {TRUE}]}],
            busy     |-> {"loading"},
            alerts   |-> {"error"}])

(* A failed verification or authorization is not told.                     *)
PublicPortalHandlers ==
  LET tells(call, then, fail) ==
        Handler([steps |-> <<Await([calls |-> {call}, then |-> then])>>, fail |-> fail])
  IN [load      |-> Handler([steps |-> <<Await([calls |-> {"getOperation"},
                                            then |-> {[operation |-> TRUE, message |-> "ready"]}]),
                                         Await([calls |-> {"getDocuments"},
                                            then |-> {[documents |-> Answer]}])>>,
                             fail  |-> [message |-> "invalid"]]),
      request   |-> tells("challengeOtp", {[message |-> "sent"]}, [message |-> "unsent"]),
      verify    |-> tells("checkOtp", {[verified |-> v, message |-> IF v THEN "verified" ELSE "wrong"]
                                         : v \in BOOLEAN}, Nothing),
      authorize |-> tells("authorizeOperation", {[message |-> "authorized"]}, Nothing)]

PublicPortal ==
  ScreenOf([states   |-> {Shown([operation |-> FALSE, documents |-> None, verified |-> FALSE,
                                 message |-> "loading"])},
            again    |-> {"request", "verify", "authorize"}, \* no button has a busy state
            handlers |-> PublicPortalHandlers,
            controls |-> [request   |-> {[operation |-> {TRUE}]},
                          verify    |-> {[operation |-> {TRUE}]},
                          authorize |-> {[verified |-> {TRUE}]}],
            effects  |-> <<[run |-> "load", deps |-> {}]>>])
=============================================================================
