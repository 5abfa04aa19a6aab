SPECIFICATION QuerySpec
CONSTANTS
  chat = chat
  work = work
  sprint = sprint
  id = id
  Calls = {chat, work, sprint}
  Ids = {id}
  Nil = Nil
  IdOf <- MCIdOf
  Device = {chat}
  Chat = {chat}
  AutoTasks = {work}
  Asked = {}
  Waived = {sprint}
  Providers = 2
  Lanes = 2
INVARIANTS StoppedLeavesNothing OneActivePerId PacketTruthful
PROPERTY IdIsFreed
CHECK_DEADLOCK FALSE
