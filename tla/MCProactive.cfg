SPECIFICATION ProactiveSpec
CONSTANTS
    remark = remark
    alarm = alarm
    MaxTime = 2
    Expiry = 2
    Grace = 0
    Starts <- MCStarts
    Sensed = {remark, alarm}
    Urgent = {alarm}
    Rank <- MCRank
    Capacity = 2
    MaxUpsets = 1
INVARIANTS ToldOnce
PROPERTIES ReminderIsNotSwallowed SpeaksWhenWelcome EveryReminderSettles
