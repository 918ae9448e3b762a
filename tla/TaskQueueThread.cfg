SPECIFICATION MCSpec
CONSTANTS
    Tasks = {t1}
    Delayed = {d1, d2}
    Senders = {s1}
    Delays = {0, 2}
    Ms = 1
    Horizon = 2
    None = None
    RepeatDelays = {0, 1, 3}
    Forever = Forever
    RepeatTime = 12
  
PROPERTIES PendingIsAChannel TasksRun
CHECK_DEADLOCK FALSE
