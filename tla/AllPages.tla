------------------------------ MODULE AllPages ------------------------------
(***************************************************************************)
(* The pages of both web clients and the calls they make.                  *)
(***************************************************************************)
EXTENDS FrontDeskScreens, RoomScreens, BillingScreens, AdminScreens, ShellScreens

AllScreens ==
  [AccountProfilePage |-> AccountProfilePage,
   AdminUsers |-> AdminUsers,
   Billing |-> Billing,
   BusinessSettings |-> BusinessSettings,
   CheckInForm |-> CheckInForm,
   CustomerCsvTools |-> CustomerCsvTools,
   CustomerDetailAccessPage |-> CustomerDetailAccessPage,
   Dashboard |-> Dashboard,
   DeviceHistory |-> DeviceHistory,
   DeviceManagementPage |-> DeviceManagementPage,
   Guests |-> Guests,
   HotelProfile |-> HotelProfile,
   Housekeeping |-> Housekeeping,
   Login |-> Login,
   NotificationSettingsPage |-> NotificationSettingsPage,
   OperationalAlertsPage |-> OperationalAlertsPage,
   OrderPreferencesPage |-> OrderPreferencesPage,
   OwnerDashboard |-> OwnerDashboard,
   PlatformHotels |-> PlatformHotels,
   PublicPortal |-> PublicPortal,
   QuotationDetail |-> QuotationDetail,
   QuotationForm |-> QuotationForm,
   Quotations |-> Quotations,
   RateCalendar |-> RateCalendar,
   ReceptionCustomer |-> ReceptionCustomer,
   ReceptionDevice |-> ReceptionDevice,
   ReservationForm |-> ReservationForm,
   Reservations |-> Reservations,
   Restaurant |-> Restaurant,
   RoomList |-> RoomList,
   RoomTypeList |-> RoomTypeList,
   ServiceCatalogManagementPage |-> ServiceCatalogManagementPage,
   ServiceOrderDetail |-> ServiceOrderDetail,
   ServiceOrderPaymentSettlementPage |-> ServiceOrderPaymentSettlementPage,
   ServiceOrders |-> ServiceOrders,
   Settings |-> Settings,
   SettingsAccessibility |-> SettingsAccessibility,
   SettingsAppearance |-> SettingsAppearance,
   SettingsPassword |-> SettingsPassword,
   SettingsProfile |-> SettingsProfile,
   SettingsSystem |-> SettingsSystem,
   SettingsWhatsApp |-> SettingsWhatsApp,
   Stays |-> Stays,
   WalkInCheckInForm |-> WalkInCheckInForm,
   WorkflowSettingsPage |-> WorkflowSettingsPage,
   ReceptionOrder |-> ReceptionOrder,
   RealDashboard |-> RealDashboard,
   BranchDashboard |-> BranchDashboard,
   OrderReportingPage |-> OrderReportingPage,
   ProductivityReportingPage |-> ProductivityReportingPage,
   DashboardBranchSwitcher |-> DashboardBranchSwitcher,
   DashboardGlobalSearch |-> DashboardGlobalSearch,
   Protected |-> Protected,
   CustomersPage |-> CustomersPage,
   BranchesPage |-> BranchesPage,
   TeamPage |-> TeamPage,
   TeamAccess |-> TeamAccess,
   WhatsAppPage |-> WhatsAppPage,
   AiPage |-> AiPage,
   OnboardingPage |-> OnboardingPage,
   LoginPage |-> LoginPage,
   ChangePasswordPage |-> ChangePasswordPage,
   SignupPage |-> SignupPage,
   ForgotPasswordPage |-> ForgotPasswordPage,
   ResetPasswordPage |-> ResetPasswordPage,
   AcceptInvitationPage |-> AcceptInvitationPage,
   VerifyEmailPage |-> VerifyEmailPage,
   CustomerPortalPage |-> CustomerPortalPage,
   InventoryCatalogPage |-> InventoryCatalogPage,
   Purchases |-> Purchases,
   ExpensesPage |-> ExpensesPage,
   FixiFinancialReportingPage |-> FixiFinancialReportingPage,
   InventoryReportingPage |-> InventoryReportingPage,
   SuppliersPage |-> SuppliersPage,
   MainLayout |-> MainLayout,
   ToastContainer |-> ToastContainer,
   SessionIdleLock |-> SessionIdleLock,
   AppSidebar |-> AppSidebar,
   CommandSearch |-> CommandSearch]
AllCalls ==
  ShellCalls @@ StoreCalls @@ FileCalls @@ MoneyCalls @@ WorkshopCalls @@ TeamCalls
  @@ InboxCalls @@ SignInCalls @@ SettlementCalls @@ AlertCalls @@ AccountCalls
  @@ ProfileCalls @@ WorkflowCalls @@ ServiceCalls @@ CustomerCalls @@ DeviceCalls
  @@ ReservationCalls @@ GuestCalls @@ InventoryCalls @@ QuotationCalls @@ StayCalls
  @@ RateSeasonCalls @@ BillingCalls @@ OrderCalls @@ ReportCalls @@ UserCalls
  @@ AuthCalls @@ ServiceOrderCalls @@ PortalCalls @@ WhatsAppCalls @@ PlatformCalls
=============================================================================
