CONSTANTS
    Days = {1, 2, 3, 4}
    Todays = {3, 4}
    MonthStart <- MCMonthStart
    YearStart <- MCYearStart
    Window <- MCWindow
    MaxRangeDays = 2
    TopN = 1
    SliceN = 2
    Columns <- MCColumns
    Answers <- MCAnswers
    Placeholder = "placeholder"
    NoDay = NoDay
    MaxEvents = 2
SPECIFICATION Spec
INVARIANTS RangeSound PanelsTellTruth KeysListedOnce FiguresAddUp
CHECK_DEADLOCK FALSE
