CONSTANTS
  c1 = c1
  c2 = c2
  card1 = card1
  card2 = card2
  Callers = {c1, c2}
  Cards = {card1, card2}
  Configs <- MCConfigs
  MaxKeys = 3
  MaxDay = 2
  MaxChanges = 2
  MaxCrashes = 1
  Schedules <- MCSchedules
  MemberSets = {m1, m2}
  Zones <- MCZones
  CivilZones <- MCCivilZones
  Calendars <- MCCalendars
  Horizon = 24
  Resets <- MCResets
  DayTicks = 4
  MonthStarts <- MCMonths
  MaxTime = 4
  LastReset = 16
  MaxRevisions = 3
  MaxOpen = 2
  MaxDialogs = 3
SYMMETRY Symmetry
SPECIFICATION QuotaSpec
INVARIANTS CardsAccounted RevisionsOrdered CalendarSound
PROPERTIES SpendsGuarded ChangesAsShown
