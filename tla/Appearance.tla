----------------------------- MODULE Appearance -----------------------------
(***************************************************************************)
(* The look of the client (src/frontend/src): the theme of                 *)
(* components/theme-provider.tsx, the variables of the document that       *)
(* hooks/use-theme-manager.ts sets for a preset or an imported style       *)
(* sheet, the panel that chooses them (the landing page's, and that of     *)
(* components/theme-customizer).                                           *)
(*                                                                         *)
(* A variable of the document is unset, or holds the value that a preset,  *)
(* an imported sheet or the user gave it; what the values are does not     *)
(* matter.                                                                 *)
(***************************************************************************)
EXTENDS FiniteSets

CONSTANTS
  Variable,    \* of the document, "radius" among them
  Brand,       \* those that can be picked one by one
  ColorThemes, TweakcnThemes,  \* the presets of the two lists
  DefaultTheme,
  Styles,      \* preset -> mode -> the variables it sets
  Sheets,      \* what can be imported: mode -> the variables it sets
  Unset

Modes == {"light", "dark"}

ASSUME StylesAssumption ==
  /\ "radius" \in Variable \ Brand
  /\ Brand \subseteq Variable
  /\ DefaultTheme \in ColorThemes
  /\ Styles \in [ColorThemes \cup TweakcnThemes -> [Modes -> SUBSET Variable]]
  /\ Sheets \subseteq [Modes -> SUBSET Variable]

VARIABLES
  theme, systemDark,
  toggling,      \* a toggle that waits for the transition: the theme it sets
  selected,      \* [list, preset], the imported sheet, or nothing
  importText, importOpen,
  css,           \* variable -> what gave it its value, and for which mode
  brandColors    \* the variables whose value the pickers show

appearanceVars ==
  <<theme, systemDark, toggling, selected, importText, importOpen, css, brandColors>>

Unselected == [kind |-> "none", of |-> Unset]
Preset(p) == [kind |-> IF p \in ColorThemes THEN "shadcn" ELSE "tweakcn", of |-> p]
Imported(sheet) == [kind |-> "import", of |-> sheet]
(* What the user set by hand, in any mode.                                 *)
ByHand == <<Unselected, "any">>

(* isDarkMode of the theme t; what the system prefers is looked up once.   *)
ModeOf(t) == IF t # "system" THEN t ELSE IF systemDark THEN "dark" ELSE "light"
Mode == ModeOf(theme)

(***************************************************************************)
(* The variables of the document after ...                                 *)
(***************************************************************************)
(* Mutant: what was set before stays. *)
KeptTheme(vars) == vars
ResetTheme(vars) == [v \in Variable |-> Unset]

Applied(vars, s, set, mode) ==
  [v \in Variable |-> IF v \in set THEN <<s, mode>> ELSE vars[v]]

(* applyTheme, applyTweakcnTheme                                           *)
ApplyPreset(vars, s, mode) == Applied(ResetTheme(vars), s, Styles[s.of][mode], mode)
(* A sheet sets what it names and leaves the rest.                         *)
ApplyImportedTheme(vars, s, mode) == Applied(vars, s, s.of[mode], mode)

(* The effect that applies what is selected again, in another mode.        *)
Reapplied(vars, s, mode) ==
  CASE s.kind = "none"   -> vars
    [] s.kind = "import" -> ApplyImportedTheme(vars, s, mode)
    [] OTHER             -> ApplyPreset(vars, s, mode)

BrandsOf(s, mode) ==
  Brand \cap CASE s.kind = "none"   -> {}
               [] s.kind = "import" -> s.of[mode]
               [] OTHER             -> Styles[s.of][mode]

(***************************************************************************)
(* Actions.                                                                *)
(***************************************************************************)
AppearanceInit ==
  /\ theme \in {"system", "light", "dark"} /\ systemDark \in BOOLEAN
  /\ toggling = Unset
  /\ selected = Preset(DefaultTheme)
  /\ importText = Unset /\ importOpen = FALSE
  /\ css = Reapplied([v \in Variable |-> Unset], selected, Mode)
  /\ brandColors = BrandsOf(selected, Mode)

SameTheme == UNCHANGED <<theme, systemDark, toggling>>

(* What is selected is applied where it is, and by the effect.             *)
Select(s) ==
  /\ selected' = s
  /\ css' = Reapplied(css, s, Mode)
  /\ brandColors' = BrandsOf(s, Mode)

(* A preset of either list, chosen or at random.                           *)
ChoosePreset ==
  /\ \E p \in ColorThemes \cup TweakcnThemes : Select(Preset(p))
  /\ SameTheme
  /\ UNCHANGED <<importText, importOpen>>

SelectRadius ==
  /\ css' = [css EXCEPT !["radius"] = ByHand]
  /\ SameTheme
  /\ UNCHANGED <<selected, importText, importOpen, brandColors>>

(* The picker keeps the colour; brandColorsValues does not learn of it.    *)
PickColor(v) ==
  /\ css' = [css EXCEPT ![v] = ByHand]
  /\ SameTheme
  /\ UNCHANGED <<selected, importText, importOpen, brandColors>>

HandleReset ==
  /\ selected' = Unselected
  /\ brandColors' = {}
  /\ css' = [ResetTheme(css) EXCEPT !["radius"] = ByHand]
  /\ SameTheme
  /\ UNCHANGED <<importText, importOpen>>

(* The dialog of the import keeps its text when it is closed.              *)
OpenImport ==
  /\ ~importOpen
  /\ importOpen' = TRUE
  /\ SameTheme
  /\ UNCHANGED <<selected, importText, css, brandColors>>
TypeSheet ==
  /\ importOpen
  /\ importText' \in Sheets
  /\ SameTheme
  /\ UNCHANGED <<selected, importOpen, css, brandColors>>
CloseImport ==
  /\ importOpen
  /\ importOpen' = FALSE
  /\ SameTheme
  /\ UNCHANGED <<selected, importText, css, brandColors>>
ProcessImport ==
  /\ importOpen /\ importText # Unset
  /\ Select(Imported(importText))
  /\ importOpen' = FALSE /\ importText' = Unset
  /\ SameTheme

(* The provider's theme changes, and with it the mode of what is applied.  *)
SetTheme(t) ==
  /\ theme' = t
  /\ LET mode == ModeOf(t) IN
     IF mode # Mode
     THEN /\ css' = Reapplied(css, selected, mode)
          /\ brandColors' = IF selected = Unselected THEN brandColors ELSE BrandsOf(selected, mode)
     ELSE UNCHANGED <<css, brandColors>>
  /\ UNCHANGED <<systemDark, selected, importText, importOpen>>

(* The buttons of the panel: a click in the mode that is on does nothing,  *)
(* and neither does one during a transition.                               *)
ToggleTheme(wanted) ==
  /\ wanted # Mode
  /\ toggling = Unset
  /\ toggling' = IF theme = "dark" THEN "light" ELSE "dark"
  /\ UNCHANGED <<theme, systemDark, selected, importText, importOpen, css, brandColors>>
TransitionShows ==
  /\ toggling # Unset
  /\ toggling' = Unset
  /\ SetTheme(toggling)
(* The button of the header.                                               *)
ModeToggle ==
  /\ SetTheme(IF theme = "dark" THEN "light" ELSE "dark")
  /\ UNCHANGED toggling
(* and the one of the landing page's menu.                                 *)
NavbarToggle ==
  /\ SetTheme(IF theme = "light" THEN "dark" ELSE "light")
  /\ UNCHANGED toggling

(* The parts of the panel.                                                 *)
ThemeTab == ChoosePreset \/ SelectRadius \/ (\E v \in Brand : PickColor(v)) \/ OpenImport
ModeButtons == (\E wanted \in Modes : ToggleTheme(wanted)) \/ TransitionShows
ImportModal == TypeSheet \/ CloseImport \/ ProcessImport
AppearanceNext ==
  \/ ThemeTab \/ ModeButtons \/ ImportModal
  \/ HandleReset
  \/ ModeToggle \/ NavbarToggle

AppearanceSpec == AppearanceInit /\ [][AppearanceNext]_appearanceVars

(***************************************************************************)
(* Properties.                                                             *)
(***************************************************************************)

(* Unless a sheet is imported, every variable of the document is the       *)
(* selected preset's for the mode that is on, or was picked by hand since: *)
(* nothing is left of another preset, of an import or of the other mode,   *)
(* in whatever order presets, imports, resets and modes follow each other. *)
NoColorLeftOver ==
  selected.kind # "import" =>
    \A v \in Variable :
      css[v] \in {Unset, ByHand} \cup {<<s, Mode>> : s \in {selected} \ {Unselected}}
=============================================================================
