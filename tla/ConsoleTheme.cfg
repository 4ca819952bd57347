CONSTANTS
    Tabs = {t1, t2}
SPECIFICATION ThemeSpec
INVARIANTS ThemeAgrees
