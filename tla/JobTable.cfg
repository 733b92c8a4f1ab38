\* More processes than slots; IDs may grow past MAXJOBS twice.
CONSTANTS
  MAXJOBS = 3
  MaxJid = 7
  Pids <- FourPids
SPECIFICATION Spec
INVARIANTS OneSlotPerProcess FreshUnlessWrapped
