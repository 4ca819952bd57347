---------------------------- MODULE ConsoleTheme ----------------------------
(***************************************************************************)
(* The theme of the browser console: the pre-paint script of index.html,   *)
(* lib/theme.ts, stores/theme.ts and ThemeToggle, in several tabs of one   *)
(* browser.  The tabs share the localStorage key and the preference of the *)
(* system, and nothing tells one tab that another, or the system, has      *)
(* changed them: they are read by the script as a document loads and once  *)
(* more when the store is made.                                            *)
(***************************************************************************)
EXTENDS Naturals

CONSTANT Tabs

VARIABLES stored, denied,   \* localStorage: the choice; is it unreadable?
          system,           \* prefers-color-scheme
          tab,              \* tab[t]: how far its document is, <html> and the store
          outdated          \* history: documents whose reads are not the last word

themeVars == <<stored, denied, system, tab, outdated>>

ThemeOrder == <<"dark", "light", "pastel", "red">>
Themes == {"dark", "light", "pastel", "red"}

ThemeTypeOK == /\ stored \in Themes \cup {"unset"} /\ denied \in BOOLEAN
               /\ system \in {"dark", "light"}
               /\ tab \in [Tabs -> [st : {"closed", "painted", "live"}, htmlClass : Themes,
                                    theme : Themes]]
               /\ outdated \subseteq Tabs

(* A choice kept from an earlier visit, or none. *)
ThemeInit == /\ stored \in Themes \cup {"unset"} /\ denied \in BOOLEAN
             /\ system \in {"dark", "light"}
             /\ tab = [t \in Tabs |-> [st |-> "closed", htmlClass |-> "dark", theme |-> "dark"]]
             /\ outdated = {}

readStoredTheme == IF denied THEN "unset" ELSE stored
resolveInitialTheme == IF readStoredTheme = "unset" THEN system ELSE readStoredTheme

(* The script in index.html; an unreadable storage leaves class="dark". *)
prePaintClass == IF denied THEN "dark" ELSE resolveInitialTheme

nextTheme(t) == LET i == CHOOSE j \in 1..4 : ThemeOrder[j] = t
                IN  ThemeOrder[(i % 4) + 1]

(* The documents that have read what somebody else now changes. *)
Others(t) == {u \in Tabs \ {t} : tab[u].st # "closed"}
----------------------------------------------------------------------------
(* A document is opened, or loaded again: the script runs. *)
PrePaint(t) ==
    /\ tab' = [tab EXCEPT ![t] = [st |-> "painted", htmlClass |-> prePaintClass, theme |-> "dark"]]
    /\ outdated' = IF denied THEN outdated \cup {t} ELSE outdated \ {t}
    /\ UNCHANGED <<stored, denied, system>>

(* The module is loaded: the store takes its initial theme. *)
CreateStore(t) ==
    /\ tab[t].st = "painted"
    /\ tab' = [tab EXCEPT ![t].st = "live", ![t].theme = resolveInitialTheme]
    /\ UNCHANGED <<stored, denied, system, outdated>>

(* applyThemeClass, persistTheme, and the store. *)
setTheme(t, th) ==
    /\ tab' = [tab EXCEPT ![t].htmlClass = th, ![t].theme = th]
    /\ stored' = IF denied THEN stored ELSE th

(* The ThemeToggle of a tab. *)
Toggle(t) ==
    /\ tab[t].st = "live"
    /\ setTheme(t, nextTheme(tab[t].theme))
    /\ outdated' = (IF denied THEN outdated ELSE outdated \cup Others(t)) \ {t}
    /\ UNCHANGED <<denied, system>>

(* The system changes between day and night. *)
SystemFlips ==
    /\ system' = IF system = "dark" THEN "light" ELSE "dark"
    /\ outdated' = IF readStoredTheme = "unset" THEN {t \in Tabs : tab[t].st # "closed"}
                                                ELSE outdated
    /\ UNCHANGED <<stored, denied, tab>>

ThemeNext == \/ \E t \in Tabs : PrePaint(t) \/ CreateStore(t) \/ Toggle(t)
             \/ SystemFlips

ThemeSpec == ThemeInit /\ [][ThemeNext]_themeVars
----------------------------------------------------------------------------
(* What <html> shows, what the store holds and what a reload will restore  *)
(* agree in every tab, but where another tab or the system has changed the *)
(* theme since the tab read or wrote it, or where the storage cannot be    *)
(* read and the tab has not been toggled.                                  *)
ThemeAgrees == \A t \in Tabs : tab[t].st = "live" /\ t \notin outdated =>
    /\ tab[t].htmlClass = tab[t].theme
    /\ denied \/ tab[t].theme = resolveInitialTheme

(* "The store value matches the class already on <html> at first render -- *)
(* no flash, no mismatch" (stores/theme.ts:5-6).  A change between the two *)
(* reads, or an unreadable storage, breaks it (README, Findings).          *)
FirstRenderMatches == [][\A t \in Tabs : CreateStore(t) => tab'[t].htmlClass = tab'[t].theme]_themeVars
=============================================================================
