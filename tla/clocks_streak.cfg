SPECIFICATION Spec
CONSTANTS
    command = command
    notice = notice
    Slots = {command, notice}
    Cooldown <- Cooldowns
    Commands <- Requests
    Notice = notice
    Roomy = 0
    Forget = 2
    Window = 2
    Apart = 3
    Lag = 1
    Grace = 1
    MaxTime = 4
    MaxWire = 2
CONSTRAINT FewLinks
PROPERTIES StreakSurvives
