SPECIFICATION Spec
CONSTANTS
  ain = ain
  aout = aout
  min = min
  mout = mout
  AudioIn <- OneAudioIn
  AudioOut <- OneAudioOut
  MidiIn <- OneMidiIn
  MidiOut <- OneMidiOut
  MaxFrames = 2
  MaxEvents = 2
  Sizes = {1, 2}
  Capacity = 6
  JackHeader = 1
  TimeAndSize = 2
  Word = 16
  MaxBuffers = 2
INVARIANTS
  TypeOK
  InsideBuffer
  StreamsInOrder
CHECK_DEADLOCK FALSE
