SPECIFICATION Spec
CONSTANTS
  Client = {dialer, clock}
  Type = {call}
  Ringtone = {call}
  Proclaimer = {call}
  Resource = {audio}
  Limited = {audio}
  AllowMultiple = {TRUE, FALSE}
  MaxPlay = 2
  MaxGrants = 1
  dialer = dialer
  clock = clock
  call = call
  audio = audio
  leds = leds
INVARIANTS
  NothingAfterTheEnd
  PlayingIsControlled
  ResourcesReturned
